---- MODULE Spec2Model ----
(***************************************************************************)
(* Backup/restore repository engine and package codec.                     *)
(*                                                                         *)
(* Text is a sequence of one-character strings; bytes are 0..255.  TLC's   *)
(* integers are 32 bits wide, so 32-bit unsigned words (the cipher state)  *)
(* are pairs of 16-bit halves, and numeric metadata fields are drawn below *)
(* 2^31; a decimal text whose value does not fit is the token Huge.        *)
(*                                                                         *)
(* The repository holds two builds of the engine, src/src and              *)
(* src/backup_restore_project/cpp_src; where they differ the variable      *)
(* build selects one.                                                      *)
(***************************************************************************)
EXTENDS Integers, Sequences, FiniteSets, TLC

VARIABLES
    m_pc, m_in, m_text, m_out,                       \* Metadata serialize / deserialize
    r_pc, r_in, r_mid, r_out,                        \* run-length codec
    c_pc, c_alg, c_in, c_pw, c_salt, c_mid, c_out,   \* stream ciphers
    filters_, f_added, f_pc, f_path, f_result,       \* FilterChain
    w_tree, w_variant, w_it, w_files, w_threw,       \* getFilesRecursive
    build, disk, index_,                             \* the build, the file system, Repository::index_
    a_pc, a_n, a_call, a_ret, a_first,               \* calls on a Repository
    d_pc, d_filter, d_files, d_i, d_log, d_ret, backup_count_, skipped_count_, restore_count_, failed_count_, success_count, failed_count, skipped_count, d_cancel, d_complete, d_events,
        \* Backup::execute, Restore::execute, GuiOperations
    p_pc, p_opt, p_entries, p_err, p_pw,             \* package export and import
    pf_pc, pf_pattern, pf_path, pf_result, include_patterns_, exclude_patterns_
        \* PathFilter

metaVars == <<m_pc, m_in, m_text, m_out>>
rleVars == <<r_pc, r_in, r_mid, r_out>>
cipherVars == <<c_pc, c_alg, c_in, c_pw, c_salt, c_mid, c_out>>
filterVars == <<filters_, f_added, f_pc, f_path, f_result>>
walkVars == <<w_tree, w_variant, w_it, w_files, w_threw>>
repoVars == <<build, disk, index_>>
apiVars == <<a_pc, a_n, a_call, a_ret, a_first>>
driverVars == <<d_pc, d_filter, d_files, d_i, d_log, d_ret, backup_count_, skipped_count_, restore_count_, failed_count_, success_count, failed_count, skipped_count, d_cancel, d_complete, d_events>>
pkgVars == <<p_pc, p_opt, p_entries, p_err, p_pw>>
pathVars == <<pf_pc, pf_pattern, pf_path, pf_result, include_patterns_, exclude_patterns_>>

\* what each component leaves alone: the variables of all the others
notMeta ==
    <<rleVars, cipherVars, filterVars, walkVars,
      repoVars, apiVars, driverVars, pkgVars, pathVars>>
notRle ==
    <<metaVars, cipherVars, filterVars, walkVars,
      repoVars, apiVars, driverVars, pkgVars, pathVars>>
notCipher ==
    <<metaVars, rleVars, filterVars, walkVars,
      repoVars, apiVars, driverVars, pkgVars, pathVars>>
notFilter ==
    <<metaVars, rleVars, cipherVars, walkVars,
      repoVars, apiVars, driverVars, pkgVars, pathVars>>
notWalk ==
    <<metaVars, rleVars, cipherVars, filterVars,
      repoVars, apiVars, driverVars, pkgVars, pathVars>>
notApi ==
    <<metaVars, rleVars, cipherVars, filterVars,
      walkVars, driverVars, pkgVars, pathVars>>
notDriver ==
    <<metaVars, rleVars, cipherVars, filterVars,
      walkVars, apiVars, pkgVars, pathVars>>
notPath ==
    <<metaVars, rleVars, cipherVars, filterVars,
      walkVars, repoVars, apiVars, driverVars, pkgVars>>
notPkg ==
    <<metaVars, rleVars, cipherVars, filterVars,
      walkVars, apiVars, driverVars, pathVars>>

----------------------------------------------------------------------------
(* Text helpers *)

\* e, evaluated after v: TLC evaluates operands on demand, and a loop's
\* accumulator would otherwise pile up as one nested expression
Then(v, e) == IF v = v THEN e ELSE e

\* F of the value v, which is computed once however often F uses it
With(v, F(_)) == F(v)

Digits == <<"0", "1", "2", "3", "4", "5", "6", "7", "8", "9">>

IsDigit(c) == \E i \in 1..10 : Digits[i] = c

DigitVal(c) == (CHOOSE i \in 1..10 : Digits[i] = c) - 1

IsSpace(c) == c \in {" ", "\t", "\n", "\r"}

\* std::string::find(ch, start): 1-based position of the first ch at or after
\* start, 0 for npos
RECURSIVE Find(_, _, _)
Find(s, ch, start) ==
    IF start > Len(s) THEN 0
    ELSE IF s[start] = ch THEN start
    ELSE Find(s, ch, start + 1)

\* substr(from) and substr(from, n) with 1-based from
SubFrom(s, from) == SubSeq(s, from, Len(s))

\* operator<< of an unsigned integer: decimal digits, no padding
RECURSIVE NatToText(_)
NatToText(n) ==
    IF n < 10 THEN <<Digits[n + 1]>>
    ELSE Append(NatToText(n \div 10), Digits[(n % 10) + 1])

\* operator<< of a signed integer
IntToText(i) == IF i < 0 THEN <<"-">> \o NatToText(0 - i) ELSE NatToText(i)

\* the largest value TLC represents, and the token for a value beyond it
MaxInt31 == 2147483646 + 1

Huge == (0 - MaxInt31) - 1

\* value of a run of digits starting at position p, accumulated as strtoul does
RECURSIVE DigitRun(_, _, _)
DigitRun(s, p, acc) ==
    IF p > Len(s) \/ ~IsDigit(s[p]) THEN acc
    ELSE IF acc = Huge THEN DigitRun(s, p + 1, Huge)
    ELSE IF acc > (MaxInt31 - DigitVal(s[p])) \div 10 THEN DigitRun(s, p + 1, Huge)
    ELSE DigitRun(s, p + 1, acc * 10 + DigitVal(s[p]))

RECURSIVE SkipSpace(_, _)
SkipSpace(s, p) ==
    IF p <= Len(s) /\ IsSpace(s[p]) THEN SkipSpace(s, p + 1) ELSE p

\* strtol / strtoul front end: leading white space, an optional sign, then at
\* least one digit; anything after the digits is ignored
StrToNum(s) ==
    LET p0 == SkipSpace(s, 1)
        signed == p0 <= Len(s) /\ s[p0] \in {"+", "-"}
        neg == signed /\ s[p0] = "-"
        p1 == IF signed THEN p0 + 1 ELSE p0
    IN  IF p1 > Len(s) \/ ~IsDigit(s[p1])
        THEN [ok |-> FALSE, neg |-> FALSE, val |-> 0]
        ELSE [ok |-> TRUE, neg |-> neg, val |-> DigitRun(s, p1, 0)]

\* std::stoul, then the conversion to uint32_t
stoul(s) ==
    LET r == StrToNum(s)
    IN  IF ~r.ok THEN [ok |-> FALSE, val |-> 0]
        ELSE IF r.val = Huge \/ (r.neg /\ r.val # 0) THEN [ok |-> TRUE, val |-> Huge]
        ELSE [ok |-> TRUE, val |-> r.val]

\* std::stoll
stoll(s) ==
    LET r == StrToNum(s)
    IN  IF ~r.ok THEN [ok |-> FALSE, val |-> 0]
        ELSE IF r.val = Huge THEN [ok |-> TRUE, val |-> Huge]
        ELSE [ok |-> TRUE, val |-> IF r.neg THEN 0 - r.val ELSE r.val]

\* std::stoi: out_of_range when the value does not fit an int
stoi(s) ==
    LET r == StrToNum(s)
    IN  IF ~r.ok \/ r.val = Huge THEN [ok |-> FALSE, val |-> 0]
        ELSE [ok |-> TRUE, val |-> IF r.neg THEN 0 - r.val ELSE r.val]

----------------------------------------------------------------------------
(* Metadata *)

FileTypes ==
    {"Regular", "Directory", "Symlink", "BlockDevice", "CharacterDevice", "Fifo", "Socket"}

\* a default-constructed Metadata
DefaultMetadata ==
    [mode |-> 0, mtime |-> 0, uid |-> 0, gid |-> 0, is_symlink |-> FALSE,
     symlink_target |-> <<>>, file_type |-> "Regular", dev_major |-> 0, dev_minor |-> 0]

serialize(m) ==
    NatToText(m.mode) \o <<":">> \o IntToText(m.mtime) \o <<":">> \o NatToText(m.uid)
        \o <<":">> \o NatToText(m.gid) \o <<":">>
        \o (IF m.is_symlink THEN <<"1">> ELSE <<"0">>) \o <<":">> \o m.symlink_target

\* the first five ':'-separated fields and the remainder; ok is FALSE when a
\* delimiter is missing
RECURSIVE SplitFields(_, _, _, _)
SplitFields(data, start, i, fields) ==
    IF i = 5 THEN [ok |-> TRUE, fields |-> Append(fields, SubFrom(data, start))]
    ELSE LET pos == Find(data, ":", start)
         IN  IF pos = 0 THEN [ok |-> FALSE, fields |-> fields]
             ELSE SplitFields(data, pos + 1, i + 1,
                              Append(fields, SubSeq(data, start, pos - 1)))

\* deserialize into the record self: [ok, md]; the fields are assigned one by
\* one, so a failure leaves the earlier assignments in md
deserialize(self, data) ==
    With(SplitFields(data, 1, 0, <<>>), LAMBDA sp :
      IF ~sp.ok THEN [ok |-> FALSE, md |-> self]
      ELSE With(stoul(sp.fields[1]), LAMBDA a :
        IF ~a.ok THEN [ok |-> FALSE, md |-> self]
        ELSE With(<<[self EXCEPT !.mode = a.val], stoll(sp.fields[2])>>, LAMBDA b :
          IF ~b[2].ok THEN [ok |-> FALSE, md |-> b[1]]
          ELSE With(<<[b[1] EXCEPT !.mtime = b[2].val], stoul(sp.fields[3])>>, LAMBDA c :
            IF ~c[2].ok THEN [ok |-> FALSE, md |-> c[1]]
            ELSE With(<<[c[1] EXCEPT !.uid = c[2].val], stoul(sp.fields[4])>>, LAMBDA d :
              IF ~d[2].ok THEN [ok |-> FALSE, md |-> d[1]]
              ELSE With(<<[d[1] EXCEPT !.gid = d[2].val], stoi(sp.fields[5])>>, LAMBDA s :
                IF ~s[2].ok \/ (s[2].val # 0 /\ s[2].val # 1)
                THEN [ok |-> FALSE, md |-> s[1]]
                ELSE [ok |-> TRUE,
                      md |-> [s[1] EXCEPT !.is_symlink = (s[2].val = 1),
                                          !.symlink_target = sp.fields[6]]]))))))

\* sample field values
Modes == {0, 420, 33188, 41471}
Mtimes == {0 - 1, 0, 1700000000}
Ids == {0, 1000}
Targets == {<<"t">>, <<".", ".", "/", "t">>, <<"a", ":", "b">>, <<":">>, <<"/", "x", ":", ":", "1">>}

\* the valid records: is_symlink <=> file_type = Symlink, symlink_target
\* non-empty <=> is_symlink
ValidMetadata ==
    { m \in [mode : Modes, mtime : Mtimes, uid : Ids, gid : Ids,
             is_symlink : BOOLEAN, symlink_target : Targets \cup {<<>>},
             file_type : FileTypes, dev_major : {0}, dev_minor : {0}] :
        /\ m.is_symlink = (m.file_type = "Symlink")
        /\ (m.symlink_target # <<>>) = m.is_symlink }

MetaIdle == m_pc = "idle" /\ m_in = DefaultMetadata /\ m_text = <<>> /\ m_out = [ok |-> FALSE, md |-> DefaultMetadata]

InitMeta ==
    /\ m_pc = "start"
    /\ m_in \in ValidMetadata
    /\ m_text = <<>>
    /\ m_out = [ok |-> FALSE, md |-> DefaultMetadata]

Serialize ==
    /\ m_pc = "start"
    /\ m_text' = serialize(m_in)
    /\ m_pc' = "serialized"
    /\ UNCHANGED <<m_in, m_out>>
    /\ UNCHANGED notMeta

Deserialize ==
    /\ m_pc = "serialized"
    /\ m_out' = deserialize(DefaultMetadata, m_text)
    /\ m_pc' = "parsed"
    /\ UNCHANGED <<m_in, m_text>>
    /\ UNCHANGED notMeta

NextMeta == Serialize \/ Deserialize

----------------------------------------------------------------------------
(* Bytes and 32-bit words *)

Byte == 0..255

\* bitwise exclusive or of two n-bit values
RECURSIVE BitXor(_, _, _)
BitXor(a, b, n) ==
    IF n = 0 THEN 0
    ELSE (((a % 2) + (b % 2)) % 2) + 2 * BitXor(a \div 2, b \div 2, n - 1)

\* a byte combination that is not its own inverse
Add8(a, b) == (a + b) % 256

Xor8(a, b) == BitXor(a, b, 8)

\* a uint32_t as its two 16-bit halves
W32(hi, lo) == [hi |-> hi, lo |-> lo]

Xor32(x, y) == W32(BitXor(x.hi, y.hi, 16), BitXor(x.lo, y.lo, 16))

\* x ^ b for a byte b
Xor32Byte(x, b) == W32(x.hi, BitXor(x.lo, b, 16))

\* x << k for 0 < k < 16, modulo 2^32
Shl32(x, k) ==
    W32(((x.hi * (2 ^ k)) + (x.lo \div (2 ^ (16 - k)))) % 65536, (x.lo * (2 ^ k)) % 65536)

\* x >> k for 16 <= k < 32
Shr32(x, k) == W32(0, x.hi \div (2 ^ (k - 16)))

\* x * p modulo 2^32, for a multiplier p whose low half is below 2^15
Mul32(x, p) ==
    LET low == x.lo * p.lo
    IN  W32(((x.hi * p.lo) + (x.lo * p.hi) + (low \div 65536)) % 65536, low % 65536)

----------------------------------------------------------------------------
(* Run-length codec *)

\* the longest run one pair holds
MaxRun == 255

\* a run end that lets one pair count 256 bytes
RunEndWide(in, i, b) ==
    LET goes(j) == j <= Len(in) /\ in[j] = b /\ (j - i) < MaxRun + 1
        last == IF Len(in) + 1 < i + MaxRun + 1 THEN Len(in) + 1 ELSE i + MaxRun + 1
    IN  CHOOSE j \in (i + 1)..last : ~goes(j) /\ \A k \in (i + 1)..(j - 1) : goes(k)

\* the end (exclusive) of the run of b that starts at i: where the inner
\* while loop stops, the first j failing j < size && in[j] == b && j - i < 255
RunEnd(in, i, b) ==
    LET goes(j) == j <= Len(in) /\ in[j] = b /\ (j - i) < MaxRun
        last == IF Len(in) + 1 < i + MaxRun THEN Len(in) + 1 ELSE i + MaxRun
    IN  CHOOSE j \in (i + 1)..last : ~goes(j) /\ \A k \in (i + 1)..(j - 1) : goes(k)

RECURSIVE RleScan(_, _, _)
RleScan(in, i, out) ==
    IF i > Len(in) THEN out
    ELSE LET b == in[i]
             j == RunEnd(in, i, b)
             count == (j - i) % 256
             out2 == out \o <<count, b>>
         IN  Then(out2, RleScan(in, j, out2))

\* an encoder that writes one pair for a whole run, its count cut to a byte
RECURSIVE RleScanWhole(_, _, _)
RleScanWhole(in, i, out) ==
    IF i > Len(in) THEN out
    ELSE LET b == in[i]
             stops == {j \in (i + 1)..(Len(in) + 1) : j > Len(in) \/ in[j] # b}
             j == CHOOSE k \in stops : \A m \in stops : k <= m
             out2 == out \o <<(j - i) % 256, b>>
         IN  Then(out2, RleScanWhole(in, j, out2))
rle_compress_whole(in) == RleScanWhole(in, 1, <<>>)

rle_compress(in) == IF in = <<>> THEN <<>> ELSE RleScan(in, 1, <<>>)

RECURSIVE RleExpand(_, _, _)
RleExpand(in, i, out) ==
    IF i > Len(in) THEN [ok |-> TRUE, out |-> out]
    ELSE IF in[i] = 0 THEN [ok |-> FALSE, out |-> <<>>]
    ELSE LET out2 == out \o [k \in 1..in[i] |-> in[i + 1]]
         IN  Then(out2, RleExpand(in, i + 2, out2))

\* a decoder that takes a count of zero as a run of no bytes
RECURSIVE RleExpandAny(_, _, _)
RleExpandAny(in, i, out) ==
    IF i > Len(in) THEN [ok |-> TRUE, out |-> out]
    ELSE LET out2 == out \o [k \in 1..in[i] |-> in[i + 1]]
         IN  Then(out2, RleExpandAny(in, i + 2, out2))
rle_decompress_any(in) ==
    IF Len(in) % 2 # 0 THEN [ok |-> FALSE, out |-> <<>>] ELSE RleExpandAny(in, 1, <<>>)

\* [ok, out]; ok is FALSE where the code throws
rle_decompress(in) ==
    IF in = <<>> THEN [ok |-> TRUE, out |-> <<>>]
    ELSE IF Len(in) % 2 # 0 THEN [ok |-> FALSE, out |-> <<>>]
    ELSE RleExpand(in, 1, <<>>)

\* inputs: up to MaxRuns runs, each of a length around the pair limit
MaxRuns == 2
RunLens == {1, 2, MaxRun, MaxRun + 1, 2 * MaxRun + 3}
RunBytes == {0, 97}
Runs == [len : RunLens, byte : RunBytes]

RECURSIVE ExpandRuns(_)
ExpandRuns(rs) ==
    IF rs = <<>> THEN <<>>
    ELSE [k \in 1..rs[1].len |-> rs[1].byte] \o ExpandRuns(Tail(rs))

RunSeqs == UNION { [1..n -> Runs] : n \in 0..MaxRuns }

RleInputs == { ExpandRuns(rs) : rs \in RunSeqs }

RleIdle == r_pc = "idle" /\ r_in = <<>> /\ r_mid = <<>> /\ r_out = [ok |-> FALSE, out |-> <<>>]

InitRle ==
    /\ r_pc = "start"
    /\ r_in \in RleInputs
    /\ r_mid = <<>>
    /\ r_out = [ok |-> FALSE, out |-> <<>>]

Compress ==
    /\ r_pc = "start"
    /\ r_mid' = rle_compress(r_in)
    /\ r_pc' = "compressed"
    /\ UNCHANGED <<r_in, r_out>>
    /\ UNCHANGED notRle

Decompress ==
    /\ r_pc = "compressed"
    /\ r_out' = rle_decompress(r_mid)
    /\ r_pc' = "decompressed"
    /\ UNCHANGED <<r_in, r_mid>>
    /\ UNCHANGED notRle

NextRle == Compress \/ Decompress

----------------------------------------------------------------------------
(* Stream ciphers *)

\* FNV-1a offset basis 2166136261 = 0x811C9DC5 and prime 16777619 = 0x01000193
FnvOffset == W32(33052, 40389)
FnvPrime == W32(256, 403)

RECURSIVE FnvFold(_, _, _)
FnvFold(h, bytes, i) ==
    IF i > Len(bytes) THEN h
    ELSE LET h2 == Mul32(Xor32Byte(h, bytes[i]), FnvPrime)
         IN  Then(h2, FnvFold(h2, bytes, i + 1))

fnv1a32(s, salt) == FnvFold(FnvFold(FnvOffset, s, 1), salt, 1)

\* one xorshift32 step: the new state; the byte drawn is its low 8 bits
next_byte(x) ==
    LET a == Xor32(x, Shl32(x, 13))
        b == Xor32(a, Shr32(a, 17))
    IN  Xor32(b, Shl32(b, 5))

RECURSIVE XorLoop(_, _, _, _)
XorLoop(in, i, state, out) ==
    IF i > Len(in) THEN out
    ELSE LET st == next_byte(state)
             out2 == Append(out, Xor8(in[i], st.lo % 256))
         IN  Then(<<st, out2>>, XorLoop(in, i + 1, st, out2))

xor_crypt(in, password, salt) == XorLoop(in, 1, fnv1a32(password, salt), <<>>)

\* password bytes then salt bytes; an empty key becomes one zero byte
make_key(password, salt) ==
    LET key == password \o salt IN IF key = <<>> THEN <<0>> ELSE key

Swap(S, i, j) == [S EXCEPT ![i] = S[j], ![j] = S[i]]

\* one round of the key schedule
KsaStep(st, key, i) ==
    LET j2 == (st.j + st.S[i] + key[(i % Len(key)) + 1]) % 256
    IN  [S |-> Swap(st.S, i, j2), j |-> j2]

\* the rounds i = lo..hi in order (the range is halved, and the first half
\* is evaluated before the second starts, only to keep the evaluation shallow)
RECURSIVE KsaRange(_, _, _, _)
KsaRange(st, key, lo, hi) ==
    IF lo = hi THEN KsaStep(st, key, lo)
    ELSE LET mid == (lo + hi) \div 2
             first == KsaRange(st, key, lo, mid)
         IN  Then(first, KsaRange(first, key, mid + 1, hi))

\* key schedule: S starts as the identity and i runs over 0..255
Ksa(key) == KsaRange([S |-> [i \in Byte |-> i], j |-> 0], key, 0, 255).S

RECURSIVE Prga(_, _, _, _, _, _)
Prga(S, in, k, i, j, out) ==
    IF k > Len(in) THEN out
    ELSE LET i2 == (i + 1) % 256
             j2 == (j + S[i2]) % 256
             S2 == Swap(S, i2, j2)
             rnd == S2[(S2[i2] + S2[j2]) % 256]
             out2 == Append(out, Xor8(in[k], rnd))
         IN  Then(<<S2, out2>>, Prga(S2, in, k + 1, i2, j2, out2))

rc4_crypt(in, password, salt) ==
    Prga(Ksa(make_key(password, salt)), in, 1, 0, 0, <<>>)

\* inputs
MaxLen == 3
SampleBytes == {0, 97, 255}
ByteStrings == UNION { [1..n -> SampleBytes] : n \in 0..MaxLen }
Passwords == {<<>>, <<112, 119>>, <<0>>}
SaltLen == 16
Salts == {<<>>, [k \in 1..SaltLen |-> 0], [k \in 1..SaltLen |-> (37 * k) % 256]}

crypt(alg, in, password, salt) ==
    IF alg = "XOR" THEN xor_crypt(in, password, salt) ELSE rc4_crypt(in, password, salt)

CipherIdle ==
    /\ c_pc = "idle" /\ c_alg = "XOR" /\ c_in = <<>> /\ c_pw = <<>> /\ c_salt = <<>>
    /\ c_mid = <<>> /\ c_out = <<>>

InitCipher ==
    /\ c_pc = "start"
    /\ c_alg \in {"XOR", "RC4"}
    /\ c_in \in ByteStrings
    /\ c_pw \in Passwords
    /\ c_salt \in Salts
    /\ c_mid = <<>>
    /\ c_out = <<>>

Encrypt ==
    /\ c_pc = "start"
    /\ c_mid' = crypt(c_alg, c_in, c_pw, c_salt)
    /\ c_pc' = "encrypted"
    /\ UNCHANGED <<c_alg, c_in, c_pw, c_salt, c_out>>
    /\ UNCHANGED notCipher

Decrypt ==
    /\ c_pc = "encrypted"
    /\ c_out' = crypt(c_alg, c_mid, c_pw, c_salt)
    /\ c_pc' = "decrypted"
    /\ UNCHANGED <<c_alg, c_in, c_pw, c_salt, c_mid>>
    /\ UNCHANGED notCipher

NextCipher == Encrypt \/ Decrypt

----------------------------------------------------------------------------
(* FilterChain *)

\* a FilterBase pointer: null, or a filter given by the paths it includes
FPaths == {"p", "q"}
FilterPtrs ==
    {[null |-> TRUE, accepts |-> {}]} \cup {[null |-> FALSE, accepts |-> S] : S \in SUBSET FPaths}

\* the virtual call f->shouldInclude(path)
FilterAccepts(f, path) == path \in f.accepts

\* FilterChain::addFilter: a null pointer is not stored
addFilter(chain, filter) == IF ~filter.null THEN Append(chain, filter) ELSE chain

\* FilterChain::shouldInclude: the loop returns false at the first member
\* that rejects, true after the last
RECURSIVE ChainLoop(_, _, _)
ChainLoop(chain, i, path) ==
    IF i > Len(chain) THEN TRUE
    ELSE IF ~chain[i].null /\ ~FilterAccepts(chain[i], path) THEN FALSE
    ELSE ChainLoop(chain, i + 1, path)

\* a chain that includes a path as soon as one member includes it
RECURSIVE AnyLoop(_, _, _)
AnyLoop(chain, i, path) ==
    IF i > Len(chain) THEN TRUE
    ELSE IF ~chain[i].null /\ FilterAccepts(chain[i], path) THEN TRUE
    ELSE IF i = Len(chain) THEN FALSE
    ELSE AnyLoop(chain, i + 1, path)

shouldIncludeAny(chain, path) == AnyLoop(chain, 1, path)

shouldInclude(chain, path) == ChainLoop(chain, 1, path)

MaxChain == 3

FilterIdle ==
    /\ filters_ = <<>> /\ f_added = <<>> /\ f_pc = "idle" /\ f_path = "p" /\ f_result = FALSE

InitFilter ==
    /\ filters_ = <<>> /\ f_added = <<>> /\ f_pc = "building" /\ f_path = "p" /\ f_result = FALSE

AddFilter ==
    /\ Len(f_added) < MaxChain
    /\ \E f \in FilterPtrs :
        /\ filters_' = addFilter(filters_, f)
        /\ f_added' = Append(f_added, f)
    /\ f_pc' = "building"
    /\ UNCHANGED <<f_path, f_result>>
    /\ UNCHANGED notFilter

ShouldInclude ==
    /\ \E path \in FPaths :
        /\ f_path' = path
        /\ f_result' = shouldInclude(filters_, path)
    /\ f_pc' = "decided"
    /\ UNCHANGED <<filters_, f_added>>
    /\ UNCHANGED notFilter

NextFilter == AddFilter \/ ShouldInclude

----------------------------------------------------------------------------
(* PathFilter *)

\* std::string::find of a string: the first position where pattern occurs
\* in s, 0 for npos; the empty pattern occurs at the start
OccursAt(s, pattern, i) ==
    i + Len(pattern) - 1 <= Len(s) /\ SubSeq(s, i, i + Len(pattern) - 1) = pattern
FindText(s, pattern) ==
    IF \E i \in 1..Len(s) + 1 : OccursAt(s, pattern, i)
    THEN CHOOSE i \in 1..Len(s) + 1 :
             OccursAt(s, pattern, i) /\ \A j \in 1..i - 1 : ~OccursAt(s, pattern, j)
    ELSE 0

PathChars == {"a", "b", "/"}

\* pattern.back(): the last character; of an empty string the call is
\* undefined, and what is read there can be any character
Backs(pattern) == IF pattern = <<>> THEN PathChars ELSE {pattern[Len(pattern)]}

\* pattern.substr(0, pattern.length() - 1): the length wraps around for the
\* empty string and the whole of it is taken
DirPattern(pattern) ==
    IF pattern = <<>> THEN <<>> ELSE SubSeq(pattern, 1, Len(pattern) - 1)

\* a matcher that tries equality, substring and directory prefix in turn
matchesPatternAny(path_str, pattern, back) ==
    \/ path_str = pattern
    \/ FindText(path_str, pattern) # 0
    \/ back = "/" /\ FindText(path_str, DirPattern(pattern)) = 1

\* PathFilter::matchesPattern, back being what pattern.back() gave
matchesPattern(path_str, pattern, back) ==
    IF back = "/" THEN FindText(path_str, DirPattern(pattern)) = 1
    ELSE path_str = pattern \/ FindText(path_str, pattern) # 0

\* inputs: every string of the three characters up to a length
MaxPattern == 2
MaxPath == 3
Texts(n) == UNION {[1..k -> PathChars] : k \in 0..n}

PathIdle ==
    /\ pf_pc = "idle" /\ pf_pattern = <<>> /\ pf_path = <<>> /\ pf_result = FALSE
    /\ include_patterns_ = <<>> /\ exclude_patterns_ = <<>>

InitPath ==
    /\ pf_pc = "start"
    /\ pf_pattern \in Texts(MaxPattern)
    /\ pf_path \in Texts(MaxPath)
    /\ pf_result = FALSE
    /\ include_patterns_ = <<>> /\ exclude_patterns_ = <<>>

MatchesPattern ==
    /\ pf_pc = "start"
    /\ \E back \in Backs(pf_pattern) :
           pf_result' = matchesPattern(pf_path, pf_pattern, back)
    /\ pf_pc' = "done"
    /\ UNCHANGED <<pf_pattern, pf_path, include_patterns_, exclude_patterns_>>
    /\ UNCHANGED notPath

\* a decision in which an include that matches outweighs the excludes
shouldIncludeFirst(path_str, includes, excludes, back) ==
    IF includes = <<>> /\ excludes = <<>> THEN TRUE
    ELSE IF \E i \in 1..Len(includes) :
                matchesPattern(path_str, includes[i], back[includes[i]])
         THEN TRUE
    ELSE IF \E i \in 1..Len(excludes) :
                matchesPattern(path_str, excludes[i], back[excludes[i]])
         THEN FALSE
    ELSE includes = <<>>

\* PathFilter::shouldInclude, back[p] being what p.back() gave
PathShouldInclude(path_str, includes, excludes, back) ==
    IF includes = <<>> /\ excludes = <<>> THEN TRUE
    ELSE IF \E i \in 1..Len(excludes) :
                matchesPattern(path_str, excludes[i], back[excludes[i]])
         THEN FALSE
    ELSE IF includes # <<>>
         THEN \E i \in 1..Len(includes) :
                  matchesPattern(path_str, includes[i], back[includes[i]])
    ELSE TRUE

\* the lists addInclude and addExclude build: up to MaxRules patterns each
MaxRules == 2
RulePatterns == {<<"a", "/">>, <<"b">>, <<>>}
RuleLists == UNION {[1..k -> RulePatterns] : k \in 0..MaxRules}

InitRules ==
    /\ pf_pc = "rules"
    /\ pf_pattern = <<>>
    /\ pf_path \in Texts(MaxPath)
    /\ pf_result = FALSE
    /\ include_patterns_ \in RuleLists
    /\ exclude_patterns_ \in RuleLists

PathFilterShouldInclude ==
    /\ pf_pc = "rules"
    /\ \E back \in [RulePatterns -> PathChars] :
           /\ \A p \in RulePatterns : back[p] \in Backs(p)
           /\ pf_result' = PathShouldInclude(pf_path, include_patterns_,
                                             exclude_patterns_, back)
    /\ pf_pc' = "decided"
    /\ UNCHANGED <<pf_pattern, pf_path, include_patterns_, exclude_patterns_>>
    /\ UNCHANGED notPath

NextPath == MatchesPattern \/ PathFilterShouldInclude

----------------------------------------------------------------------------
(* Directory trees *)

\* A tree maps the paths below its root to nodes; a path is the sequence of
\* its components and the root is <<>>.  Directory entries are read in the
\* order of Names.
Names == <<"a", "b">>

\* a node: its type, content (a regular file), target (a symbolic link, as
\* path components), permission bits and modification time
Node(kind, bytes, target) ==
    [kind |-> kind, bytes |-> bytes, target |-> target, perms |-> 420, mtime |-> 1700000000]

Parent(path) == SubSeq(path, 1, Len(path) - 1)

\* the entries of directory dir, in reading order
Children(tree, dir) ==
    LET present == SelectSeq(Names, LAMBDA n : Append(dir, n) \in DOMAIN tree)
    IN  [k \in 1..Len(present) |-> Append(dir, present[k])]

\* how many symbolic links one path resolution follows before it fails
MaxSymHops == 4

\* the outcome of a path resolution: the node reached, ENOENT or ELOOP; for
\* ENOENT, final says that only the last component is missing and path is
\* where it would be created
Reached(path, outside) == [err |-> "ok", outside |-> outside, path |-> path, final |-> FALSE]
Missing == [err |-> "noent", outside |-> FALSE, path |-> <<>>, final |-> FALSE]
MissingAt(path) == [err |-> "noent", outside |-> FALSE, path |-> path, final |-> TRUE]
Looping == [err |-> "loop", outside |-> FALSE, path |-> <<>>, final |-> FALSE]

\* path resolution from directory dir: "." and ".." are walked, a symbolic
\* link is replaced by its target; the parent of the root is a directory
\* outside the tree
RECURSIVE Resolve(_, _, _, _)
Resolve(tree, dir, comps, fuel) ==
    IF comps = <<>> THEN Reached(dir, FALSE)
    ELSE LET c == Head(comps)
             rest == Tail(comps)
             p == Append(dir, c)
         IN  IF c = "." THEN Resolve(tree, dir, rest, fuel)
             ELSE IF c = ".."
                  THEN IF dir = <<>>
                       THEN IF rest = <<>> THEN Reached(<<>>, TRUE) ELSE Missing
                       ELSE Resolve(tree, Parent(dir), rest, fuel)
             ELSE IF p \notin DOMAIN tree
                  THEN IF rest = <<>> THEN MissingAt(p) ELSE Missing
             ELSE IF tree[p].kind = "Directory" THEN Resolve(tree, p, rest, fuel)
             ELSE IF tree[p].kind = "Symlink"
                  THEN IF fuel = 0 THEN Looping
                       ELSE Resolve(tree, dir, tree[p].target \o rest, fuel - 1)
             ELSE IF rest = <<>> THEN Reached(p, FALSE)
             ELSE Missing

\* std::filesystem::status(path, ec).type(): symbolic links are followed;
\* "not_found" for a missing file, "none" for any other error
StatusKind(tree, path) ==
    With(Resolve(tree, <<>>, path, MaxSymHops), LAMBDA r :
        IF r.err = "noent" THEN "not_found"
        ELSE IF r.err = "loop" THEN "none"
        ELSE IF r.outside \/ r.path = <<>> THEN "Directory"
        ELSE tree[r.path].kind)

\* std::filesystem::symlink_status(path).type(): the entry itself
SymlinkStatusKind(tree, path) ==
    IF path = <<>> THEN "Directory"
    ELSE IF path \in DOMAIN tree THEN tree[path].kind
    ELSE "not_found"

----------------------------------------------------------------------------
(* File-system calls *)

\* the result of a call that changes the file system; ok is FALSE where the
\* call fails or throws
Res(ok, fs) == [ok |-> ok, fs |-> fs]

IsDir(fs, path) == path = <<>> \/ (path \in DOMAIN fs /\ fs[path].kind = "Directory")

\* where the entry named by path lives: its parent directory is resolved,
\* the entry itself is not followed
RealPath(fs, path) ==
    With(Resolve(fs, <<>>, Parent(path), MaxSymHops), LAMBDA r :
        IF path # <<>> /\ r.err = "ok" /\ ~r.outside /\ IsDir(fs, r.path)
        THEN [ok |-> TRUE, path |-> Append(r.path, path[Len(path)])]
        ELSE [ok |-> FALSE, path |-> <<>>])

HasEntries(fs, dir) == \E q \in DOMAIN fs : Len(q) = Len(dir) + 1 /\ Parent(q) = dir

\* the creation of a new entry: fails when the name is taken
MakeEntry(fs, path, node) ==
    With(RealPath(fs, path), LAMBDA at :
        IF ~at.ok \/ at.path \in DOMAIN fs THEN Res(FALSE, fs)
        ELSE Res(TRUE, (at.path :> node) @@ fs))

\* std::filesystem::create_directories: every missing prefix is made; what
\* was made stays when a later prefix fails
RECURSIVE create_directories(_, _)
create_directories(fs, path) ==
    IF path = <<>> THEN Res(TRUE, fs)
    ELSE With(StatusKind(fs, path), LAMBDA k :
        IF k = "Directory" THEN Res(TRUE, fs)
        ELSE IF k # "not_found" THEN Res(FALSE, fs)
        ELSE With(create_directories(fs, Parent(path)), LAMBDA up :
                 IF ~up.ok THEN up
                 ELSE MakeEntry(up.fs, path, Node("Directory", <<>>, <<>>))))

\* std::filesystem::copy_file(from, to, overwrite_existing): both names are
\* followed (f and t are what they resolve to); the copy takes the content
\* and the permission bits
CopyResolved(fs, f, t) ==
    IF f.err # "ok" \/ f.outside \/ IsDir(fs, f.path) THEN Res(FALSE, fs)
    ELSE IF fs[f.path].kind # "Regular" THEN Res(FALSE, fs)
    ELSE IF t.err = "ok"
         THEN IF t.outside \/ IsDir(fs, t.path) \/ t.path = f.path THEN Res(FALSE, fs)
              ELSE IF fs[t.path].kind # "Regular" THEN Res(FALSE, fs)
              ELSE Res(TRUE, [fs EXCEPT ![t.path].bytes = fs[f.path].bytes,
                                        ![t.path].perms = fs[f.path].perms])
    ELSE IF t.err = "noent" /\ t.final
         THEN Res(TRUE, (t.path :> [Node("Regular", fs[f.path].bytes, <<>>)
                                      EXCEPT !.perms = fs[f.path].perms]) @@ fs)
    ELSE Res(FALSE, fs)

copy_file(fs, from, to) ==
    CopyResolved(fs, Resolve(fs, <<>>, from, MaxSymHops), Resolve(fs, <<>>, to, MaxSymHops))

\* std::filesystem::remove: the entry itself; a directory must be empty;
\* removing nothing is no error
remove(fs, path) ==
    With(RealPath(fs, path), LAMBDA at :
        IF ~at.ok \/ at.path \notin DOMAIN fs THEN Res(TRUE, fs)
        ELSE IF IsDir(fs, at.path) /\ HasEntries(fs, at.path) THEN Res(FALSE, fs)
        ELSE Res(TRUE, [q \in DOMAIN fs \ {at.path} |-> fs[q]]))

\* std::filesystem::create_symlink and ::symlink, the target as components
create_symlink(fs, target, to) ==
    IF target = <<>> THEN Res(FALSE, fs) ELSE MakeEntry(fs, to, Node("Symlink", <<>>, target))

\* ::mkfifo(path, mode)
mkfifo(fs, path, mode) ==
    MakeEntry(fs, path, [Node("Fifo", <<>>, <<>>) EXCEPT !.perms = mode % 4096])

\* the type bits of st_mode
TypeBits ==
    [Regular |-> 32768, Directory |-> 16384, Symlink |-> 40960, BlockDevice |-> 24576,
     CharacterDevice |-> 8192, Fifo |-> 4096, Socket |-> 49152]

st_mode(node) == TypeBits[node.kind] + node.perms

\* a path as text and back: components joined by '/'; ".." is two characters
\* and every other name of the model is one; an absolute path starts with
\* the component "/"
CompText(c) == IF c = ".." THEN <<".", ".">> ELSE <<c>>

RECURSIVE PathText(_)
PathText(path) ==
    IF path = <<>> THEN <<>>
    ELSE IF path[1] = "/" THEN <<"/">> \o PathText(Tail(path))
    ELSE IF Len(path) = 1 THEN CompText(path[1])
    ELSE CompText(path[1]) \o <<"/">> \o PathText(Tail(path))

TextComp(t) == IF t = <<".", ".">> THEN ".." ELSE IF Len(t) = 1 THEN t[1] ELSE "?"

\* std::filesystem::path(text): the components between the separators
RECURSIVE TextPath(_)
TextPath(text) ==
    IF text = <<>> THEN <<>>
    ELSE With(Find(text, "/", 1), LAMBDA pos :
        IF pos = 0 THEN <<TextComp(text)>>
        ELSE IF pos = 1 THEN <<"/">> \o TextPath(Tail(text))
        ELSE <<TextComp(SubSeq(text, 1, pos - 1))>> \o TextPath(SubFrom(text, pos + 1)))

----------------------------------------------------------------------------
(* Metadata and FileUtils on the file system *)

\* the owner of every file of the model
Owner == [uid |-> 1000, gid |-> 1000]

\* what stat (or lstat, for a link) gives for the node
StatInto(md, node) ==
    [md EXCEPT !.mode = st_mode(node), !.mtime = node.mtime,
               !.uid = Owner.uid, !.gid = Owner.gid]

\* Metadata::loadFromFile into a fresh record: [ok, md]; exists() follows
\* links, and throws when the status is an error; the root of the file
\* system is never asked for
loadFromFile(fs, path) ==
    With(Resolve(fs, <<>>, path, MaxSymHops), LAMBDA r :
        IF r.err # "ok" \/ r.path \notin DOMAIN fs THEN [ok |-> FALSE, md |-> DefaultMetadata]
        ELSE IF SymlinkStatusKind(fs, path) = "Symlink"
             THEN [ok |-> TRUE,
                   md |-> StatInto([DefaultMetadata EXCEPT
                                      !.is_symlink = TRUE,
                                      !.symlink_target = PathText(fs[path].target)],
                                   fs[path])]
        ELSE [ok |-> TRUE, md |-> StatInto(DefaultMetadata, fs[r.path])])

\* Metadata::applyToFile: chmod follows links, utimensat does not; a failed
\* chmod returns before the time is set
applyToFile(md, fs, path) ==
    With(Resolve(fs, <<>>, path, MaxSymHops), LAMBDA r :
        IF r.err # "ok" \/ r.path \notin DOMAIN fs \/ path \notin DOMAIN fs THEN Res(FALSE, fs)
        ELSE Res(TRUE, [[fs EXCEPT ![r.path].perms = md.mode % 4096]
                           EXCEPT ![path].mtime = md.mtime]))

\* the link branch of copyFile, in the file system fs1 with the parent made:
\* what is at the destination is removed when exists() sees it
CopyLink(fs1, from, to) ==
    With(StatusKind(fs1, to), LAMBDA k :
        IF k = "none" THEN Res(FALSE, fs1)
        ELSE IF k = "not_found" THEN create_symlink(fs1, fs1[from].target, to)
        ELSE With(remove(fs1, to), LAMBDA gone :
                 IF ~gone.ok THEN Res(FALSE, fs1)
                 ELSE create_symlink(gone.fs, fs1[from].target, to)))

\* FileUtils::copyFile: the parent of the destination is made first; a link
\* is re-created with its target, anything else goes through copy_file
copyFile(fs, from, to) ==
    With(create_directories(fs, Parent(to)).fs, LAMBDA fs1 :
        IF SymlinkStatusKind(fs1, from) = "Symlink" THEN CopyLink(fs1, from, to)
        ELSE copy_file(fs1, from, to))

\* the longest existing prefix of path, made canonical, and the rest of the
\* path after it: [ok, path], ok FALSE where a status is an error
RECURSIVE weakly_canonical(_, _, _)
weakly_canonical(fs, path, n) ==
    With(Resolve(fs, <<>>, SubSeq(path, 1, n), MaxSymHops), LAMBDA r :
        IF r.err = "loop" THEN [ok |-> FALSE, path |-> path]
        ELSE IF r.err = "ok" /\ ~r.outside
             THEN [ok |-> TRUE, path |-> r.path \o SubSeq(path, n + 1, Len(path))]
        ELSE IF n = 0 THEN [ok |-> FALSE, path |-> path]
        ELSE weakly_canonical(fs, path, n - 1))

\* path::lexically_relative
RECURSIVE lexically_relative(_, _)
lexically_relative(path, base) ==
    IF base # <<>> /\ path # <<>> /\ Head(path) = Head(base)
    THEN lexically_relative(Tail(path), Tail(base))
    ELSE IF base = <<>> /\ path = <<>> THEN <<".">>
    ELSE [k \in 1..Len(base) |-> ".."] \o path

\* FileUtils::getRelativePath: std::filesystem::relative(path, base), which
\* works on the canonical forms; path itself, which is absolute, when that
\* throws
getRelativePath(fs, base, path) ==
    With(<<weakly_canonical(fs, path, Len(path)), weakly_canonical(fs, base, Len(base))>>,
         LAMBDA c : IF c[1].ok /\ c[2].ok THEN lexically_relative(c[1].path, c[2].path)
                    ELSE <<"/">> \o path)

\* FilesystemUtils::getFileType: [ok, type], ok FALSE where it throws.
\* src/src asks lstat; cpp_src asks exists(), is_symlink() and then stat()
getFileType(variant, fs, path) ==
    With(<<SymlinkStatusKind(fs, path), StatusKind(fs, path)>>, LAMBDA k :
        IF variant = "src"
        THEN IF k[1] = "not_found" THEN [ok |-> FALSE, type |-> "Regular"]
             ELSE [ok |-> TRUE, type |-> k[1]]
        ELSE IF k[2] = "none" THEN [ok |-> FALSE, type |-> "Regular"]
             ELSE IF k[2] = "not_found" THEN [ok |-> TRUE, type |-> "Regular"]
             ELSE IF k[1] = "Symlink" THEN [ok |-> TRUE, type |-> "Symlink"]
             ELSE [ok |-> TRUE, type |-> k[2]])

\* a policy that also takes named pipes
isBackupSupportedFifo(type) == type \in {"Regular", "Directory", "Symlink", "Fifo"}

\* FilesystemUtils::isBackupSupported
isBackupSupported(type) == type \in {"Regular", "Directory", "Symlink"}

----------------------------------------------------------------------------
(* Repository *)

repo_path_ == <<"R">>
data_dir_ == <<"R", "data">>
index_file_ == <<"R", "index.txt">>

\* Repository::initialize
initialize(fs) == create_directories(create_directories(fs, repo_path_).fs, data_dir_).fs

\* Repository::getStoragePath: data_dir_ / relative_path, which is
\* relative_path itself when that is absolute
getStoragePath(relative_path) ==
    IF relative_path # <<>> /\ relative_path[1] = "/" THEN Tail(relative_path)
    ELSE data_dir_ \o relative_path

SetEntry(index, path, md) == [q \in DOMAIN index \cup {path} |-> IF q = path THEN md ELSE index[q]]

StoreRes(ok, fs, index) == [ok |-> ok, fs |-> fs, index |-> index]

\* Repository::storeFile of src/src: [ok, fs, index]; the index is written
\* first, a link is recorded only, a regular file is copied
storeFileSrc(fs, index, source_path, relative_path, metadata) ==
    With(<<SetEntry(index, relative_path, metadata),
           create_directories(fs, Parent(getStoragePath(relative_path))).fs>>, LAMBDA s :
        IF metadata.file_type = "Symlink" \/ metadata.is_symlink THEN StoreRes(TRUE, s[2], s[1])
        ELSE IF metadata.file_type = "Regular"
             THEN With(copyFile(s[2], source_path, getStoragePath(relative_path)),
                       LAMBDA copy : StoreRes(copy.ok, copy.fs, s[1]))
        ELSE StoreRes(TRUE, s[2], s[1]))

\* Repository::storeFile of cpp_src: Regular and Symlink go through
\* copyFile, and the index is written after a successful copy
storeFileCpp(fs, index, source_path, relative_path, metadata) ==
    With(create_directories(fs, Parent(getStoragePath(relative_path))).fs, LAMBDA fs1 :
        IF metadata.file_type \in {"Regular", "Symlink"}
        THEN With(copyFile(fs1, source_path, getStoragePath(relative_path)), LAMBDA copy :
                 IF ~copy.ok THEN StoreRes(FALSE, copy.fs, index)
                 ELSE StoreRes(TRUE, copy.fs, SetEntry(index, relative_path, metadata)))
        ELSE StoreRes(TRUE, fs1, SetEntry(index, relative_path, metadata)))

storeFile(variant, fs, index, source_path, relative_path, metadata) ==
    IF variant = "src" THEN storeFileSrc(fs, index, source_path, relative_path, metadata)
    ELSE storeFileCpp(fs, index, source_path, relative_path, metadata)

\* the end of both restoreFile: a failed creation is the result; after a
\* successful one the metadata is applied to the listed types, and a
\* failure of that is only warned about
Applied(types, md, made, target_path) ==
    IF ~made.ok THEN made
    ELSE IF md.file_type \in types THEN Res(TRUE, applyToFile(md, made.fs, target_path).fs)
    ELSE made

\* step 4 of restoreFile of src/src, by file type, in the file system fs2
\* where the target has been removed
CreateSrc(fs2, md, storage_path, target_path) ==
    CASE md.file_type = "Regular" ->
           IF StatusKind(fs2, storage_path) \in {"not_found", "none"} THEN Res(FALSE, fs2)
           ELSE copyFile(fs2, storage_path, target_path)
      [] md.file_type = "Symlink" ->
           create_symlink(fs2, TextPath(md.symlink_target), target_path)
      [] md.file_type = "Fifo" -> mkfifo(fs2, target_path, md.mode)
      [] OTHER -> Res(TRUE, fs2)

\* steps 2 and 3: the parent is made, and what exists() or is_symlink()
\* see at the target is removed; ok is FALSE where that throws
ClearTarget(fs, target_path) ==
    With(create_directories(fs, Parent(target_path)).fs, LAMBDA fs1 :
        With(StatusKind(fs1, target_path), LAMBDA k :
            IF k = "none" THEN Res(FALSE, fs1)
            ELSE IF k # "not_found" \/ SymlinkStatusKind(fs1, target_path) = "Symlink"
                 THEN remove(fs1, target_path)
            ELSE Res(TRUE, fs1)))

\* a restoreFile that looks the path up only after clearing the target
restoreFileClearFirst(fs, index, relative_path, target_path) ==
    With(ClearTarget(fs, target_path), LAMBDA gone :
        IF ~gone.ok THEN gone
        ELSE IF relative_path \notin DOMAIN index THEN Res(FALSE, gone.fs)
        ELSE Applied({"Regular", "Fifo"}, index[relative_path],
                     CreateSrc(gone.fs, index[relative_path],
                               getStoragePath(relative_path), target_path),
                     target_path))

\* Repository::restoreFile of src/src: [ok, fs]
restoreFileSrc(fs, index, relative_path, target_path) ==
    IF relative_path \notin DOMAIN index THEN Res(FALSE, fs)
    ELSE With(ClearTarget(fs, target_path), LAMBDA gone :
             IF ~gone.ok THEN gone
             ELSE Applied({"Regular", "Fifo"}, index[relative_path],
                          CreateSrc(gone.fs, index[relative_path],
                                    getStoragePath(relative_path), target_path),
                          target_path))

\* the switch of restoreFile of cpp_src; the Fifo branch makes the parent
\* and removes what exists() sees, in a try of its own
CreateCpp(fs, md, storage_path, target_path) ==
    CASE md.file_type \in {"Regular", "Symlink"} -> copyFile(fs, storage_path, target_path)
      [] md.file_type = "Fifo" ->
           With(create_directories(fs, Parent(target_path)).fs, LAMBDA fs1 :
               With(StatusKind(fs1, target_path), LAMBDA k :
                   IF k = "none" THEN Res(FALSE, fs1)
                   ELSE IF k = "not_found" THEN mkfifo(fs1, target_path, md.mode)
                   ELSE With(remove(fs1, target_path), LAMBDA gone :
                            IF ~gone.ok THEN gone
                            ELSE mkfifo(gone.fs, target_path, md.mode))))
      [] OTHER -> Res(TRUE, fs)

\* Repository::restoreFile of cpp_src: the stored body is looked for before
\* the index entry, as that of a regular file when there is no entry
restoreFileCpp(fs, index, relative_path, target_path) ==
    IF /\ relative_path \in DOMAIN index =>
              index[relative_path].file_type \in {"Regular", "Symlink"}
       /\ StatusKind(fs, getStoragePath(relative_path)) \in {"not_found", "none"}
    THEN Res(FALSE, fs)
    ELSE IF relative_path \notin DOMAIN index THEN Res(FALSE, fs)
    ELSE Applied({"Regular", "Symlink", "Fifo"}, index[relative_path],
                 CreateCpp(fs, index[relative_path], getStoragePath(relative_path),
                           target_path),
                 target_path)

restoreFile(variant, fs, index, relative_path, target_path) ==
    IF variant = "src" THEN restoreFileSrc(fs, index, relative_path, target_path)
    ELSE restoreFileCpp(fs, index, relative_path, target_path)

\* the order of std::map<path, Metadata>: paths compare component by
\* component, components as strings
NameOrder == <<"/", ".", "..", "R", "S", "T", "a", "b", "x">>
NameRank(c) == CHOOSE i \in 1..Len(NameOrder) : NameOrder[i] = c

RECURSIVE PathLess(_, _)
PathLess(p, q) ==
    IF q = <<>> THEN FALSE
    ELSE IF p = <<>> THEN TRUE
    ELSE IF Head(p) = Head(q) THEN PathLess(Tail(p), Tail(q))
    ELSE NameRank(Head(p)) < NameRank(Head(q))

\* the keys with the greatest first
RECURSIVE listFilesDescending(_)
listFilesDescending(index) ==
    IF DOMAIN index = {} THEN <<>>
    ELSE With(CHOOSE p \in DOMAIN index : \A q \in DOMAIN index \ {p} : PathLess(q, p),
              LAMBDA last :
                  <<last>> \o listFilesDescending([q \in DOMAIN index \ {last} |-> index[q]]))

\* Repository::listFiles: the keys in map order
RECURSIVE listFiles(_)
listFiles(index) ==
    IF DOMAIN index = {} THEN <<>>
    ELSE With(CHOOSE p \in DOMAIN index : \A q \in DOMAIN index \ {p} : PathLess(p, q),
              LAMBDA first :
                  <<first>> \o listFiles([q \in DOMAIN index \ {first} |-> index[q]]))

\* the lines saveIndex writes: path, tab, serialized metadata, newline
RECURSIVE IndexText(_, _)
IndexText(index, keys) ==
    IF keys = <<>> THEN <<>>
    ELSE PathText(Head(keys)) \o <<"\t">> \o serialize(index[Head(keys)]) \o <<"\n">>
             \o IndexText(index, Tail(keys))

\* Repository::saveIndex: the file is opened for writing, which makes or
\* empties it; [ok, fs]
saveIndex(fs, index) ==
    With(Resolve(fs, <<>>, index_file_, MaxSymHops), LAMBDA r :
        IF r.err = "ok" /\ ~IsDir(fs, r.path) /\ fs[r.path].kind = "Regular"
        THEN Res(TRUE, [fs EXCEPT ![r.path].bytes = IndexText(index, listFiles(index))])
        ELSE IF r.err = "noent" /\ r.final
             THEN Res(TRUE, (r.path :> Node("Regular", IndexText(index, listFiles(index)),
                                            <<>>)) @@ fs)
        ELSE Res(FALSE, fs))

\* one line of the index file: empty lines, lines without a tab and lines
\* whose metadata does not parse are passed over
LoadLine(index, line, tab_pos) ==
    IF line = <<>> \/ tab_pos = 0 THEN index
    ELSE With(deserialize(DefaultMetadata, SubFrom(line, tab_pos + 1)), LAMBDA parsed :
             IF parsed.ok
             THEN SetEntry(index, TextPath(SubSeq(line, 1, tab_pos - 1)), parsed.md)
             ELSE index)

\* the getline loop of loadIndex from position start of the text
RECURSIVE LoadLines(_, _, _)
LoadLines(text, start, index) ==
    IF start > Len(text) THEN index
    ELSE With(Find(text, "\n", start), LAMBDA nl :
        With(IF nl = 0 THEN Len(text) + 1 ELSE nl, LAMBDA stop :
            With(LoadLine(index, SubSeq(text, start, stop - 1),
                          Find(SubSeq(text, start, stop - 1), "\t", 1)),
                 LAMBDA index1 : Then(index1, LoadLines(text, stop + 1, index1)))))

\* loadIndex once the directories are there: without an index file the
\* index in memory stays as it is; a directory opens and gives no line
LoadFrom(fs1, index) ==
    With(Resolve(fs1, <<>>, index_file_, MaxSymHops), LAMBDA r :
        IF r.err = "loop" THEN StoreRes(FALSE, fs1, index)
        ELSE IF r.err = "noent" THEN StoreRes(TRUE, fs1, index)
        ELSE IF IsDir(fs1, r.path) THEN StoreRes(TRUE, fs1, <<>>)
        ELSE IF fs1[r.path].kind # "Regular" THEN StoreRes(FALSE, fs1, index)
        ELSE StoreRes(TRUE, fs1, LoadLines(fs1[r.path].bytes, 1, <<>>)))

\* Repository::loadIndex: [ok, fs, index]; cpp_src makes the repository
\* directories first
loadIndex(variant, fs, index) ==
    LoadFrom(IF variant = "src" THEN fs ELSE initialize(fs), index)

----------------------------------------------------------------------------
(* FileUtils::getFilesRecursive *)

\* A recursive_directory_iterator is the stack of the directories being
\* read, each with the entries not yet passed; the current entry is the head
\* of the last one.
RECURSIVE DropEmpty(_)
DropEmpty(stack) ==
    IF stack # <<>> /\ stack[Len(stack)] = <<>>
    THEN DropEmpty(SubSeq(stack, 1, Len(stack) - 1))
    ELSE stack

ItBegin(tree, root) == DropEmpty(<<Children(tree, root)>>)

ItEntry(stack) == Head(stack[Len(stack)])

\* an increment that descends without passing the entry
ItIncrementStay(tree, stack, pending) ==
    LET e == ItEntry(stack)
        passed == [stack EXCEPT ![Len(stack)] = Tail(@)]
        descend == /\ pending
                   /\ StatusKind(tree, e) = "Directory"
                   /\ SymlinkStatusKind(tree, e) # "Symlink"
    IN  DropEmpty(IF descend THEN Append(stack, Children(tree, e)) ELSE passed)

\* operator++: descend into the current entry when recursion is pending and
\* it is a directory that is not a symbolic link (the default options do not
\* follow directory symlinks), else pass it
ItIncrement(tree, stack, pending) ==
    LET e == ItEntry(stack)
        passed == [stack EXCEPT ![Len(stack)] = Tail(@)]
        descend == /\ pending
                   /\ StatusKind(tree, e) = "Directory"
                   /\ SymlinkStatusKind(tree, e) # "Symlink"
    IN  DropEmpty(IF descend THEN Append(passed, Children(tree, e)) ELSE passed)

\* one turn of the for loop of src/src: [stack, files, threw];
\* entry.is_directory() throws when the status of the entry is an error
WalkBodySrc(tree, stack, files) ==
    LET e == ItEntry(stack)
        st == StatusKind(tree, e)
    IN  IF st = "none" THEN [stack |-> <<>>, files |-> files, threw |-> TRUE]
        ELSE [stack |-> ItIncrement(tree, stack, TRUE),
              files |-> IF st # "Directory" THEN Append(files, e) ELSE files,
              threw |-> FALSE]

\* one turn of the for loop of cpp_src: an entry whose own status is both a
\* symbolic link and a directory is passed without recursion;
\* entry.is_directory(ec) is false when the status is an error
WalkBodyCpp(tree, stack, files) ==
    LET e == ItEntry(stack)
        own == SymlinkStatusKind(tree, e)
    IN  IF own = "Symlink" /\ own = "Directory"
        THEN [stack |-> ItIncrement(tree, stack, FALSE), files |-> files, threw |-> FALSE]
        ELSE [stack |-> ItIncrement(tree, stack, TRUE),
              files |-> IF StatusKind(tree, e) # "Directory" THEN Append(files, e) ELSE files,
              threw |-> FALSE]

WalkBody(variant, tree, stack, files) ==
    IF variant = "src" THEN WalkBodySrc(tree, stack, files) ELSE WalkBodyCpp(tree, stack, files)

RECURSIVE WalkLoop(_, _, _, _)
WalkLoop(variant, tree, stack, files) ==
    IF stack = <<>> THEN [ok |-> TRUE, files |-> files]
    ELSE LET n == WalkBody(variant, tree, stack, files)
         IN  IF n.threw THEN [ok |-> FALSE, files |-> n.files]
             ELSE Then(n, WalkLoop(variant, tree, n.stack, n.files))

\* the files collected below root, none when it does not exist: [ok, files],
\* ok FALSE where the loop throws
getFilesRecursive(variant, tree, root) ==
    IF StatusKind(tree, root) = "not_found" THEN [ok |-> TRUE, files |-> <<>>]
    ELSE WalkLoop(variant, tree, ItBegin(tree, root), <<>>)

Variants == {"src", "cpp_src"}

\* trees for the walk: two top entries, each nothing, a regular file, a
\* symbolic link or a directory; a directory holds up to two entries, the
\* first of them possibly a link to the root, to its own directory or to the
\* other one
EmptyTree == <<>>
DirNode == Node("Directory", <<>>, <<>>)
RegNode == Node("Regular", <<>>, <<>>)
TopTargets == {<<"a">>, <<"b">>, <<"x">>}
DeepTargets == {<<"..">>, <<"..", "a">>, <<"..", "b">>}

LeavesAt(path, leaves) == {EmptyTree} \cup {path :> nd : nd \in leaves}

WalkSubtrees(n) ==
    LeavesAt(<<n>>, {RegNode} \cup {Node("Symlink", <<>>, t) : t \in TopTargets})
        \cup {(<<n>> :> DirNode) @@ ca @@ cb :
                 ca \in LeavesAt(<<n, "a">>, {RegNode, DirNode}
                                   \cup {Node("Symlink", <<>>, t) : t \in DeepTargets}),
                 cb \in LeavesAt(<<n, "b">>, {RegNode})}

WalkTrees == {ta @@ tb : ta \in WalkSubtrees("a"), tb \in WalkSubtrees("b")}

WalkIdle ==
    /\ w_tree = EmptyTree /\ w_variant = "src" /\ w_it = <<>> /\ w_files = <<>>
    /\ w_threw = FALSE

InitWalk ==
    /\ w_tree \in WalkTrees
    /\ w_variant \in Variants
    /\ w_it = ItBegin(w_tree, <<>>)
    /\ w_files = <<>>
    /\ w_threw = FALSE

WalkStep ==
    /\ w_it # <<>>
    /\ LET n == WalkBody(w_variant, w_tree, w_it, w_files)
       IN  w_it' = n.stack /\ w_files' = n.files /\ w_threw' = n.threw
    /\ UNCHANGED <<w_tree, w_variant>>
    /\ UNCHANGED notWalk

WalkDone == w_it = <<>>

NextWalk == WalkStep

----------------------------------------------------------------------------
(* Calls on a Repository *)

SrcRoot == <<"S">>
TargetRoot == <<"T">>

RepoIdle == build = "src" /\ disk = <<>> /\ index_ = <<>>

\* the source files of the calls: a regular file, a link to it and a
\* named pipe
ApiSource ==
    (SrcRoot :> DirNode) @@ (<<"S", "a">> :> Node("Regular", <<104, 105>>, <<>>))
        @@ (<<"S", "b">> :> Node("Symlink", <<>>, <<"a">>))
        @@ (<<"S", "x">> :> Node("Fifo", <<>>, <<>>))

\* the file types a caller sets for a source file: its own, and for a link
\* also the Regular that loadFromFile leaves
StoreTypes(source_path) ==
    IF ApiSource[source_path].kind = "Symlink" THEN {"Symlink", "Regular"}
    ELSE {ApiSource[source_path].kind}

\* the arguments of a store call: a source file, what loadFromFile gives
\* for it with the file type set, and a relative path
StoreCalls ==
    { [op |-> "store", source_path |-> c[1], relative_path |-> c[2],
       metadata |-> [loadFromFile(ApiSource, c[1]).md EXCEPT !.file_type = c[3]]] :
        c \in { x \in {<<"S", "a">>, <<"S", "b">>, <<"S", "x">>}
                          \X {<<"a">>, <<"b">>, <<"b", "a">>} \X FileTypes :
                    x[3] \in StoreTypes(x[1]) } }

NoCall == [op |-> "none"]

\* the path written on each line of an index file, from position start
RECURSIVE IndexLinePaths(_, _)
IndexLinePaths(text, start) ==
    IF start > Len(text) THEN <<>>
    ELSE With(Find(text, "\n", start), LAMBDA nl :
        With(IF nl = 0 THEN Len(text) + 1 ELSE nl, LAMBDA stop :
            With(Find(SubSeq(text, start, stop - 1), "\t", 1), LAMBDA tab_pos :
                (IF tab_pos = 0 THEN <<>>
                 ELSE <<TextPath(SubSeq(text, start, start + tab_pos - 2))>>)
                    \o IndexLinePaths(text, stop + 1))))

\* the order in which the keys of the index were first inserted: keys that
\* left the index are dropped, the new ones among tried are appended in turn
RECURSIVE Inserted(_, _, _)
Inserted(first, after, tried) ==
    IF tried = <<>> THEN SelectSeq(first, LAMBDA p : p \in DOMAIN after)
    ELSE With(SelectSeq(first, LAMBDA p : p \in DOMAIN after), LAMBDA kept :
            Inserted(IF Head(tried) \in DOMAIN after
                        /\ \A i \in 1..Len(kept) : kept[i] # Head(tried)
                     THEN Append(kept, Head(tried)) ELSE kept,
                     after, Tail(tried)))

\* how many store calls one behaviour makes
MaxStores == 2

ApiIdle == a_pc = "idle" /\ a_n = 0 /\ a_call = NoCall /\ a_ret = FALSE /\ a_first = <<>>

\* a new Repository object after initialize()
InitApi ==
    /\ build \in Variants
    /\ disk = initialize(ApiSource)
    /\ index_ = <<>>
    /\ a_pc = "open" /\ a_n = 0 /\ a_call = NoCall /\ a_ret = TRUE
    /\ a_first = <<>>

StoreFile ==
    /\ a_n < MaxStores /\ a_pc # "restored"
    /\ \E call \in StoreCalls :
         \E r \in {storeFile(build, disk, index_, call.source_path, call.relative_path,
                             call.metadata)} :
             /\ disk' = r.fs
             /\ index_' = r.index
             /\ a_ret' = r.ok
             /\ a_call' = call
             /\ a_first' = Inserted(a_first, r.index, <<call.relative_path>>)
    /\ a_n' = a_n + 1
    /\ a_pc' = "open"
    /\ UNCHANGED build
    /\ UNCHANGED notApi

SaveIndex ==
    /\ a_pc \notin {"idle", "restored"}
    /\ \E r \in {saveIndex(disk, index_)} : disk' = r.fs /\ a_ret' = r.ok
    /\ a_call' = [op |-> "save"]
    /\ a_pc' = "saved"
    /\ UNCHANGED <<build, index_, a_n, a_first>>
    /\ UNCHANGED notApi

LoadIndex ==
    /\ a_pc \notin {"idle", "restored"}
    /\ \E r \in {loadIndex(build, disk, index_)} :
           /\ disk' = r.fs /\ index_' = r.index /\ a_ret' = r.ok
           /\ a_first' = IF StatusKind(r.fs, index_file_) = "Regular"
                          THEN Inserted(<<>>, r.index,
                                        IndexLinePaths(r.fs[index_file_].bytes, 1))
                          ELSE Inserted(a_first, r.index, <<>>)
    /\ a_call' = [op |-> "load"]
    /\ a_pc' = IF a_pc = "saved" THEN "loaded" ELSE "open"
    /\ UNCHANGED <<build, a_n>>
    /\ UNCHANGED notApi

\* the arguments of a restore call: a relative path and a target, which is
\* a new file in a directory that does not exist yet or an existing file
RestoreCalls ==
    { [op |-> "restore", relative_path |-> c[1], target_path |-> c[2]] :
        c \in {<<"a">>, <<"b">>, <<"b", "a">>} \X {<<"T", "a">>, <<"S", "a">>} }

\* one restoreFile call, the last call of a behaviour
RestoreFile ==
    /\ a_pc \notin {"idle", "restored"}
    /\ \E call \in RestoreCalls :
         \E r \in {restoreFile(build, disk, index_, call.relative_path,
                                call.target_path)} :
             /\ disk' = r.fs
             /\ a_ret' = r.ok
             /\ a_call' = call
    /\ a_pc' = "restored"
    /\ UNCHANGED <<build, index_, a_n, a_first>>
    /\ UNCHANGED notApi

NextApi == StoreFile \/ SaveIndex \/ LoadIndex \/ RestoreFile

----------------------------------------------------------------------------
(* Backup::execute and Restore::execute *)

\* source trees under SrcRoot: two top entries, each nothing, a file of any
\* type, a link, or a directory of up to two entries
Special(kind) == Node(kind, <<>>, <<>>)
TopLeaves(n) ==
    {Node("Regular", <<NameRank(n)>>, <<>>)}
        \cup {Node("Symlink", <<>>, t) : t \in TopTargets}
        \cup {Special(k) : k \in {"Fifo", "Socket", "BlockDevice", "CharacterDevice"}}
DeepLeaves ==
    {RegNode, DirNode, Special("Fifo"), Node("Symlink", <<>>, <<"..">>),
     Node("Symlink", <<>>, <<"..", "b">>)}

DriverSubtrees(n) ==
    LeavesAt(<<"S", n>>, TopLeaves(n))
        \cup {(<<"S", n>> :> DirNode) @@ ca @@ cb :
                 ca \in LeavesAt(<<"S", n, "a">>, DeepLeaves),
                 cb \in LeavesAt(<<"S", n, "b">>, {Node("Regular", <<0, 255>>, <<>>)})}

DriverTrees ==
    {(SrcRoot :> DirNode) @@ (TargetRoot :> DirNode) @@ ta @@ tb :
        ta \in DriverSubtrees("a"), tb \in DriverSubtrees("b")}

\* the filter argument: none, or one that leaves out S/b
DriverFilters ==
    {[null |-> TRUE, accepts |-> {}],
     [null |-> FALSE, accepts |-> {<<"S", "a">>} \cup {<<"S", n, m>> : n, m \in {"a", "b"}}]}

\* the locals of the GUI operations and what the ProgressCallback was told
guiVars == <<success_count, failed_count, skipped_count, d_cancel, d_complete, d_events>>
NoComplete == [called |-> FALSE]
GuiIdle ==
    /\ success_count = 0 /\ failed_count = 0 /\ skipped_count = 0
    /\ d_cancel = FALSE /\ d_complete = NoComplete /\ d_events = <<>>

DriverIdle ==
    /\ d_pc = "idle" /\ d_filter = [null |-> TRUE, accepts |-> {}] /\ d_files = <<>>
    /\ d_i = 0 /\ d_log = <<>> /\ d_ret = FALSE
    /\ backup_count_ = 0 /\ skipped_count_ = 0 /\ restore_count_ = 0 /\ failed_count_ = 0
    /\ GuiIdle

\* main() before the backup: a new Repository, initialize()
InitDriver ==
    /\ build \in Variants
    /\ \E tree \in DriverTrees : disk = initialize(tree)
    /\ index_ = <<>>
    /\ d_filter \in DriverFilters
    /\ d_pc = "start" /\ d_files = <<>> /\ d_i = 0 /\ d_log = <<>> /\ d_ret = FALSE
    /\ backup_count_ = 0 /\ skipped_count_ = 0 /\ restore_count_ = 0 /\ failed_count_ = 0
    /\ GuiIdle

\* Backup::execute up to its loop: the counters are reset and the files
\* collected; an exception of the walk leaves execute
BackupBegin ==
    /\ d_pc = "start"
    /\ \E walk \in {getFilesRecursive(build, disk, SrcRoot)} :
           /\ d_pc' = IF walk.ok THEN "backup" ELSE "crashed"
           /\ d_files' = walk.files
    /\ d_i' = 1
    /\ backup_count_' = 0 /\ skipped_count_' = 0
    /\ UNCHANGED <<build, disk, index_, d_filter, d_log, d_ret, restore_count_, failed_count_>>
    /\ UNCHANGED guiVars
    /\ UNCHANGED notDriver

\* Backup::backupFile: [ok, disk, index]
backupFile(v, f, index, source_path, source_root) ==
    With(loadFromFile(f, source_path), LAMBDA loaded :
        IF ~loaded.ok THEN StoreRes(FALSE, f, index)
        ELSE storeFile(v, f, index, source_path,
                       getRelativePath(f, source_root, source_path), loaded.md))

\* one turn of the loop of Backup::execute; getFileType is outside the try
\* of backupFile, so its exception leaves execute
BackupOne ==
    /\ d_pc = "backup" /\ d_i <= Len(d_files)
    /\ IF ~d_filter.null /\ ~FilterAccepts(d_filter, d_files[d_i])
       THEN /\ skipped_count_' = skipped_count_ + 1
            /\ d_log' = Append(d_log, "filtered")
            /\ UNCHANGED <<disk, index_, backup_count_, d_pc>>
       ELSE \E file_type \in {getFileType(build, disk, d_files[d_i])} :
            IF ~file_type.ok
            THEN /\ d_pc' = "crashed"
                 /\ UNCHANGED <<disk, index_, backup_count_, skipped_count_, d_log>>
            ELSE IF ~isBackupSupported(file_type.type)
            THEN /\ skipped_count_' = skipped_count_ + 1
                 /\ d_log' = Append(d_log, "unsupported")
                 /\ UNCHANGED <<disk, index_, backup_count_, d_pc>>
            ELSE \E done \in {backupFile(build, disk, index_, d_files[d_i], SrcRoot)} :
                 /\ disk' = done.fs
                 /\ index_' = done.index
                 /\ backup_count_' = IF done.ok THEN backup_count_ + 1 ELSE backup_count_
                 /\ skipped_count_' = IF done.ok THEN skipped_count_ ELSE skipped_count_ + 1
                 /\ d_log' = Append(d_log, IF done.ok THEN "stored" ELSE "failed")
                 /\ UNCHANGED d_pc
    /\ d_i' = d_i + 1
    /\ UNCHANGED <<build, d_filter, d_files, d_ret, restore_count_, failed_count_>>
    /\ UNCHANGED guiVars
    /\ UNCHANGED notDriver

\* the end of Backup::execute: saveIndex and the return value
BackupEnd ==
    /\ d_pc = "backup" /\ d_i > Len(d_files)
    /\ \E r \in {saveIndex(disk, index_)} : disk' = r.fs /\ d_ret' = r.ok
    /\ d_pc' = "backed_up"
    /\ UNCHANGED <<build, index_, d_filter, d_files, d_i, d_log>>
    /\ UNCHANGED <<backup_count_, skipped_count_, restore_count_, failed_count_>>
    /\ UNCHANGED guiVars
    /\ UNCHANGED notDriver

\* the restore run: main() makes a new Repository and calls loadIndex,
\* Restore::execute calls it again, lists the files and resets the counters
RestoreBegin ==
    /\ d_pc = "backed_up" /\ d_ret
    /\ \E first \in {loadIndex(build, disk, <<>>)} :
       \E again \in {loadIndex(build, first.fs, first.index)} :
           /\ disk' = again.fs
           /\ index_' = again.index
           /\ d_files' = listFiles(again.index)
           /\ d_pc' = IF first.ok /\ again.ok THEN "restore" ELSE "restore_failed"
    /\ d_i' = 1
    /\ d_ret' = FALSE
    /\ restore_count_' = 0 /\ failed_count_' = 0
    /\ UNCHANGED <<build, d_filter, d_log, backup_count_, skipped_count_>>
    /\ UNCHANGED guiVars
    /\ UNCHANGED notDriver

\* target_root / relative_path
TargetPath(relative_path) ==
    IF relative_path # <<>> /\ relative_path[1] = "/" THEN Tail(relative_path)
    ELSE TargetRoot \o relative_path

\* one turn of the loop of Restore::execute
RestoreOne ==
    /\ d_pc = "restore" /\ d_i <= Len(d_files)
    /\ \E r \in {restoreFile(build, disk, index_, d_files[d_i], TargetPath(d_files[d_i]))} :
           /\ disk' = r.fs
           /\ restore_count_' = IF r.ok THEN restore_count_ + 1 ELSE restore_count_
           /\ failed_count_' = IF r.ok THEN failed_count_ ELSE failed_count_ + 1
    /\ d_i' = d_i + 1
    /\ UNCHANGED <<build, index_, d_pc, d_filter, d_files, d_log, d_ret>>
    /\ UNCHANGED <<backup_count_, skipped_count_>>
    /\ UNCHANGED guiVars
    /\ UNCHANGED notDriver

\* the end of Restore::execute
RestoreEnd ==
    /\ d_pc = "restore" /\ d_i > Len(d_files)
    /\ d_ret' = (failed_count_ = 0)
    /\ d_pc' = "restored"
    /\ UNCHANGED <<build, disk, index_, d_filter, d_files, d_i, d_log>>
    /\ UNCHANGED <<backup_count_, skipped_count_, restore_count_, failed_count_>>
    /\ UNCHANGED guiVars
    /\ UNCHANGED notDriver

\* GuiOperations::backupWithProgress starts without a repository
InitGui ==
    /\ build = "cpp_src"
    /\ disk \in DriverTrees
    /\ index_ = <<>>
    /\ d_filter \in DriverFilters
    /\ d_pc = "gui_start" /\ d_files = <<>> /\ d_i = 0 /\ d_log = <<>> /\ d_ret = FALSE
    /\ backup_count_ = 0 /\ skipped_count_ = 0 /\ restore_count_ = 0 /\ failed_count_ = 0
    /\ GuiIdle

\* a call of the ProgressCallback: its name and the number of the file it
\* is about in the list, 0 for a path that is not a file of the list and for
\* onComplete; onStart carries the total
Told(name, n) == <<name, n>>

\* what the sink is told about file i after onProgress, by outcome
ToldOutcome(outcome, i) ==
    CASE outcome \in {"filtered", "unsupported"} -> <<Told("onFileSkipped", i)>>
      [] outcome \in {"stored", "restored"} -> <<Told("onFileSuccess", i)>>
      [] outcome = "failed" -> <<Told("onFileError", i)>>
      [] OTHER -> <<>>

\* the calls of one loop turn: onComplete when cancelled, else onProgress
\* and the outcome; an exception leaves after onProgress
ToldTurn(outcome, i) ==
    IF outcome = "cancelled" THEN <<Told("onComplete", 0)>>
    ELSE <<Told("onProgress", i)>> \o ToldOutcome(outcome, i)

\* the arguments of ProgressCallback::onComplete
Complete(success, failed, skipped, ok) ==
    [called |-> TRUE, success |-> success, failed |-> failed, skipped |-> skipped,
     ok |-> ok]

\* what one turn of a loop did
Turn(outcome, fs, index) == [outcome |-> outcome, fs |-> fs, index |-> index]

\* backupWithProgress up to its loop: the source root is looked up, the
\* repository made and the files collected; an exception of the walk leaves
\* the function
GuiBackupBegin ==
    /\ d_pc = "gui_start"
    /\ IF StatusKind(disk, SrcRoot) = "not_found"
       THEN /\ d_pc' = "gui_failed"
            /\ d_events' = <<Told("onFileError", 0)>>
            /\ UNCHANGED <<disk, d_files>>
       ELSE /\ disk' = initialize(disk)
            /\ \E walk \in {getFilesRecursive(build, initialize(disk), SrcRoot)} :
                   /\ d_pc' = IF walk.ok THEN "gui_backup" ELSE "crashed"
                   /\ d_files' = walk.files
                   /\ d_events' = IF walk.ok THEN <<Told("onStart", Len(walk.files))>>
                                  ELSE <<>>
    /\ d_i' = 1
    /\ success_count' = 0 /\ failed_count' = 0 /\ skipped_count' = 0
    /\ UNCHANGED <<build, index_, d_filter, d_log, d_ret, d_cancel, d_complete>>
    /\ UNCHANGED <<backup_count_, skipped_count_, restore_count_, failed_count_>>
    /\ UNCHANGED notDriver

\* the body of the loop of backupWithProgress after the cancel check;
\* getFileType is outside the try
GuiBackupFile(variant, fs, index, filter, file_path) ==
    IF ~filter.null /\ ~FilterAccepts(filter, file_path) THEN Turn("filtered", fs, index)
    ELSE With(getFileType(variant, fs, file_path), LAMBDA file_type :
        IF ~file_type.ok THEN Turn("crashed", fs, index)
        ELSE IF ~isBackupSupported(file_type.type) THEN Turn("unsupported", fs, index)
        ELSE With(backupFile(variant, fs, index, file_path, SrcRoot), LAMBDA done :
                 Turn(IF done.ok THEN "stored" ELSE "failed", done.fs, done.index)))

\* a loop that asks shouldCancel only after it has handled the file
GuiBackupTurnLate(variant, fs, index, filter, file_path, cancel) ==
    With(GuiBackupFile(variant, fs, index, filter, file_path), LAMBDA t :
        IF cancel THEN Turn("cancelled", t.fs, t.index) ELSE t)

\* one turn of the loop of backupWithProgress: shouldCancel is asked first
GuiBackupTurn(variant, fs, index, filter, file_path, cancel) ==
    IF cancel THEN Turn("cancelled", fs, index)
    ELSE GuiBackupFile(variant, fs, index, filter, file_path)

\* a counter that is never incremented
CountNothing(n, outcome, counted) == n

\* success_count++, failed_count++, skipped_count++
Count(n, outcome, counted) == IF outcome \in counted THEN n + 1 ELSE n

GuiBackupOne ==
    /\ d_pc = "gui_backup" /\ d_i <= Len(d_files)
    /\ \E cancel \in BOOLEAN :
       \E t \in {GuiBackupTurn(build, disk, index_, d_filter, d_files[d_i], cancel)} :
           /\ d_cancel' = cancel
           /\ disk' = t.fs
           /\ index_' = t.index
           /\ success_count' = Count(success_count, t.outcome, {"stored"})
           /\ failed_count' = Count(failed_count, t.outcome, {"failed"})
           /\ skipped_count' = Count(skipped_count, t.outcome, {"filtered", "unsupported"})
           /\ d_log' = IF t.outcome \in {"cancelled", "crashed"} THEN d_log
                       ELSE Append(d_log, t.outcome)
           /\ d_i' = IF t.outcome \in {"cancelled", "crashed"} THEN d_i ELSE d_i + 1
           /\ d_pc' = IF t.outcome = "cancelled" THEN "gui_cancelled"
                      ELSE IF t.outcome = "crashed" THEN "crashed" ELSE d_pc
           /\ d_complete' = IF t.outcome = "cancelled"
                            THEN Complete(success_count, failed_count, skipped_count, FALSE)
                            ELSE d_complete
           /\ d_events' = d_events \o ToldTurn(t.outcome, d_i)
    /\ d_ret' = FALSE
    /\ UNCHANGED <<build, d_filter, d_files>>
    /\ UNCHANGED <<backup_count_, skipped_count_, restore_count_, failed_count_>>
    /\ UNCHANGED notDriver

\* the end of backupWithProgress: saveIndex, onComplete and the return value
GuiBackupEnd ==
    /\ d_pc = "gui_backup" /\ d_i > Len(d_files)
    /\ \E r \in {saveIndex(disk, index_)} :
           /\ disk' = r.fs
           /\ d_ret' = (r.ok /\ failed_count = 0)
           /\ d_complete' = Complete(success_count, failed_count, skipped_count,
                                     r.ok /\ failed_count = 0)
           /\ d_pc' = IF r.ok THEN "gui_backed_up" ELSE "gui_save_failed"
           /\ d_events' = d_events \o (IF r.ok THEN <<>> ELSE <<Told("onFileError", 0)>>)
                                   \o <<Told("onComplete", 0)>>
    /\ UNCHANGED <<build, index_, d_filter, d_files, d_i, d_log, d_cancel>>
    /\ UNCHANGED <<success_count, failed_count, skipped_count>>
    /\ UNCHANGED <<backup_count_, skipped_count_, restore_count_, failed_count_>>
    /\ UNCHANGED notDriver

\* between the two runs the repository is out of the program's hands:
\* index.txt may have become a link that leads nowhere but to itself
IndexUnreadable ==
    /\ d_pc \in {"backed_up", "gui_backed_up"}
    /\ StatusKind(disk, index_file_) = "Regular"
    /\ disk' = [disk EXCEPT ![index_file_] = Node("Symlink", <<>>, <<"index.txt">>)]
    /\ UNCHANGED <<build, index_>>
    /\ UNCHANGED driverVars
    /\ UNCHANGED notDriver

\* restoreWithProgress up to its loop: a new Repository, loadIndex, listFiles
GuiRestoreBegin ==
    /\ d_pc = "gui_backed_up"
    /\ \E r \in {loadIndex(build, disk, <<>>)} :
           /\ disk' = r.fs
           /\ index_' = r.index
           /\ d_files' = listFiles(r.index)
           /\ d_pc' = IF r.ok THEN "gui_restore" ELSE "gui_restore_failed"
           /\ d_events' = IF r.ok THEN <<Told("onStart", Len(listFiles(r.index)))>>
                          ELSE <<Told("onFileError", 0)>>
    /\ d_i' = 1
    /\ d_ret' = FALSE
    /\ success_count' = 0 /\ failed_count' = 0 /\ skipped_count' = 0
    /\ d_cancel' = FALSE /\ d_complete' = NoComplete
    /\ UNCHANGED <<build, d_filter, d_log>>
    /\ UNCHANGED <<backup_count_, skipped_count_, restore_count_, failed_count_>>
    /\ UNCHANGED notDriver

\* one turn of the loop of restoreWithProgress: shouldCancel is asked first
GuiRestoreTurn(variant, fs, index, relative_path, cancel) ==
    IF cancel THEN Turn("cancelled", fs, index)
    ELSE With(restoreFile(variant, fs, index, relative_path, TargetPath(relative_path)),
              LAMBDA r : Turn(IF r.ok THEN "restored" ELSE "failed", r.fs, index))

GuiRestoreOne ==
    /\ d_pc = "gui_restore" /\ d_i <= Len(d_files)
    /\ \E cancel \in BOOLEAN :
       \E t \in {GuiRestoreTurn(build, disk, index_, d_files[d_i], cancel)} :
           /\ d_cancel' = cancel
           /\ disk' = t.fs
           /\ success_count' = Count(success_count, t.outcome, {"restored"})
           /\ failed_count' = Count(failed_count, t.outcome, {"failed"})
           /\ d_i' = IF t.outcome = "cancelled" THEN d_i ELSE d_i + 1
           /\ d_pc' = IF t.outcome = "cancelled" THEN "gui_restore_cancelled" ELSE d_pc
           /\ d_complete' = IF t.outcome = "cancelled"
                            THEN Complete(success_count, failed_count, skipped_count, FALSE)
                            ELSE d_complete
           /\ d_events' = d_events \o ToldTurn(t.outcome, d_i)
    /\ UNCHANGED <<build, index_, d_filter, d_files, d_log, d_ret, skipped_count>>
    /\ UNCHANGED <<backup_count_, skipped_count_, restore_count_, failed_count_>>
    /\ UNCHANGED notDriver

\* the end of restoreWithProgress
GuiRestoreEnd ==
    /\ d_pc = "gui_restore" /\ d_i > Len(d_files)
    /\ d_ret' = (failed_count = 0)
    /\ d_complete' = Complete(success_count, failed_count, skipped_count, failed_count = 0)
    /\ d_events' = Append(d_events, Told("onComplete", 0))
    /\ d_pc' = "gui_restored"
    /\ UNCHANGED <<build, disk, index_, d_filter, d_files, d_i, d_log, d_cancel>>
    /\ UNCHANGED <<success_count, failed_count, skipped_count>>
    /\ UNCHANGED <<backup_count_, skipped_count_, restore_count_, failed_count_>>
    /\ UNCHANGED notDriver

NextDriver ==
    \/ BackupBegin \/ BackupOne \/ BackupEnd
    \/ RestoreBegin \/ RestoreOne \/ RestoreEnd
    \/ GuiBackupBegin \/ GuiBackupOne \/ GuiBackupEnd
    \/ IndexUnreadable
    \/ GuiRestoreBegin \/ GuiRestoreOne \/ GuiRestoreEnd

----------------------------------------------------------------------------
(* Package export and import *)

\* the characters of a path string and their bytes in a package
CharCode(c) ==
    CASE c = "/" -> 47 [] c = "." -> 46 [] c = "R" -> 82 [] c = "S" -> 83 [] c = "T" -> 84
      [] c = "a" -> 97 [] c = "b" -> 98 [] c = "x" -> 120 [] OTHER -> 63
CodeChar(b) ==
    CASE b = 47 -> "/" [] b = 46 -> "." [] b = 82 -> "R" [] b = 83 -> "S" [] b = 84 -> "T"
      [] b = 97 -> "a" [] b = 98 -> "b" [] b = 120 -> "x" [] OTHER -> "?"

\* enum class PackAlg, CompressAlg, EncryptAlg
HeaderPerFile == 1
TocAtEnd == 2
CompressNone == 0
RLE == 1
EncryptNone == 0
XOR == 1
RC4 == 2

\* write_u8 and write_le<T> with n = sizeof(T); the values written here are
\* below 2^31, so the bytes above the fourth are 0
write_u8(v) == <<v % 256>>
write_le(n, v) == [i \in 1..n |-> IF i > 4 THEN 0 ELSE (v \div (256 ^ (i - 1))) % 256]

\* write_string: the length as uint32_t, then the characters
write_string(str) == write_le(4, Len(str)) \o [i \in 1..Len(str) |-> CharCode(str[i])]

\* a read at position pos of the stream: [ok, val, pos], ok FALSE where
\* the read throws
Read(ok, val, pos) == [ok |-> ok, val |-> val, pos |-> pos]

read_u8(is, pos) ==
    IF pos > Len(is) THEN Read(FALSE, 0, pos) ELSE Read(TRUE, is[pos], pos + 1)

\* read_le<T>: a value that does not fit 31 bits is Huge here
read_le(is, pos, n) ==
    IF pos + n - 1 > Len(is) THEN Read(FALSE, 0, pos)
    ELSE IF is[pos + 3] >= 128 \/ \E i \in 5..n : is[pos + i - 1] # 0
         THEN Read(TRUE, Huge, pos + n)
    ELSE Read(TRUE, is[pos] + 256 * is[pos + 1] + 65536 * is[pos + 2]
                        + 16777216 * is[pos + 3], pos + n)

read_bytes(is, pos, n) ==
    IF n = Huge \/ pos + n - 1 > Len(is) THEN Read(FALSE, <<>>, pos)
    ELSE Read(TRUE, SubSeq(is, pos, pos + n - 1), pos + n)

read_string(is, pos) ==
    With(read_le(is, pos, 4), LAMBDA n :
        IF ~n.ok THEN Read(FALSE, <<>>, pos)
        ELSE With(read_bytes(is, n.pos, n.val), LAMBDA b :
                 IF ~b.ok THEN Read(FALSE, <<>>, pos)
                 ELSE Read(TRUE, [i \in 1..Len(b.val) |-> CodeChar(b.val[i])], b.pos)))

\* struct Entry
Entry(relPath, payload, originalSize) ==
    [relPath |-> relPath, payload |-> payload, originalSize |-> originalSize]

\* pack_header_write: the loop over the entries
RECURSIVE HeaderEntries(_)
HeaderEntries(entries) ==
    IF entries = <<>> THEN <<>>
    ELSE write_string(Head(entries).relPath) \o write_le(8, Head(entries).originalSize)
             \o write_le(8, Len(Head(entries).payload)) \o Head(entries).payload
             \o HeaderEntries(Tail(entries))

pack_header_write(entries) == write_le(4, Len(entries)) \o HeaderEntries(entries)

\* pack_header_read: the loop, n entries to go; [ok, entries]
RECURSIVE HeaderRead(_, _, _, _)
HeaderRead(is, pos, n, entries) ==
    IF n = 0 THEN [ok |-> TRUE, entries |-> entries]
    ELSE With(read_string(is, pos), LAMBDA path :
        IF ~path.ok THEN [ok |-> FALSE, entries |-> entries]
        ELSE With(read_le(is, path.pos, 8), LAMBDA orig :
            IF ~orig.ok THEN [ok |-> FALSE, entries |-> entries]
            ELSE With(read_le(is, orig.pos, 8), LAMBDA stored :
                IF ~stored.ok THEN [ok |-> FALSE, entries |-> entries]
                ELSE With(read_bytes(is, stored.pos, stored.val), LAMBDA data :
                    IF ~data.ok THEN [ok |-> FALSE, entries |-> entries]
                    ELSE HeaderRead(is, data.pos, n - 1,
                                    Append(entries, Entry(path.val, data.val, orig.val)))))))

pack_header_read(is, pos) ==
    With(read_le(is, pos, 4), LAMBDA n :
        IF ~n.ok \/ n.val = Huge THEN [ok |-> FALSE, entries |-> <<>>]
        ELSE HeaderRead(is, n.pos, n.val, <<>>))

\* pack_toc_write after the bytes os: the blobs, and the TOC items with the
\* offset of each blob
RECURSIVE TocBlobs(_)
TocBlobs(entries) ==
    IF entries = <<>> THEN <<>> ELSE Head(entries).payload \o TocBlobs(Tail(entries))

\* items that all carry the offset of the first blob
RECURSIVE TocItemsOneOffset(_, _)
TocItemsOneOffset(entries, offset) ==
    IF entries = <<>> THEN <<>>
    ELSE write_string(Head(entries).relPath) \o write_le(8, Head(entries).originalSize)
             \o write_le(8, offset) \o write_le(8, Len(Head(entries).payload))
             \o TocItemsOneOffset(Tail(entries), offset)

RECURSIVE TocItems(_, _)
TocItems(entries, offset) ==
    IF entries = <<>> THEN <<>>
    ELSE write_string(Head(entries).relPath) \o write_le(8, Head(entries).originalSize)
             \o write_le(8, offset) \o write_le(8, Len(Head(entries).payload))
             \o TocItems(Tail(entries), offset + Len(Head(entries).payload))

TOC_MAGIC == <<84, 79, 67, 49>>

pack_toc_write(os, entries) ==
    os \o TocBlobs(entries) \o TOC_MAGIC \o write_le(4, Len(entries))
       \o TocItems(entries, Len(os))
       \o write_le(8, Len(os) + Len(TocBlobs(entries)))

\* pack_toc_read: the loop over the items, each followed here by the read
\* of its blob at its offset
RECURSIVE TocRead(_, _, _, _)
TocRead(is, pos, n, entries) ==
    IF n = 0 THEN [ok |-> TRUE, entries |-> entries]
    ELSE With(read_string(is, pos), LAMBDA path :
        IF ~path.ok THEN [ok |-> FALSE, entries |-> entries]
        ELSE With(read_le(is, path.pos, 8), LAMBDA orig :
            IF ~orig.ok THEN [ok |-> FALSE, entries |-> entries]
            ELSE With(read_le(is, orig.pos, 8), LAMBDA offset :
                IF ~offset.ok THEN [ok |-> FALSE, entries |-> entries]
                ELSE With(read_le(is, offset.pos, 8), LAMBDA stored :
                    IF ~stored.ok \/ offset.val = Huge
                    THEN [ok |-> FALSE, entries |-> entries]
                    ELSE With(read_bytes(is, offset.val + 1, stored.val), LAMBDA data :
                        IF ~data.ok THEN [ok |-> FALSE, entries |-> entries]
                        ELSE TocRead(is, stored.pos, n - 1,
                                     Append(entries,
                                            Entry(path.val, data.val, orig.val))))))))

pack_toc_read(is) ==
    IF Len(is) < 8 THEN [ok |-> FALSE, entries |-> <<>>]
    ELSE With(read_le(is, Len(is) - 7, 8), LAMBDA tocOffset :
        IF tocOffset.val = Huge THEN [ok |-> FALSE, entries |-> <<>>]
        ELSE With(read_bytes(is, tocOffset.val + 1, 4), LAMBDA magic :
            IF ~magic.ok \/ magic.val # TOC_MAGIC THEN [ok |-> FALSE, entries |-> <<>>]
            ELSE With(read_le(is, magic.pos, 4), LAMBDA n :
                IF ~n.ok \/ n.val = Huge THEN [ok |-> FALSE, entries |-> <<>>]
                ELSE TocRead(is, n.pos, n.val, <<>>))))

\* apply_compress, apply_decompress ([ok, out]), apply_encrypt, apply_decrypt
apply_compress(in, alg) == IF alg = RLE THEN rle_compress(in) ELSE in
apply_decompress(in, alg) ==
    IF alg = RLE THEN rle_decompress(in) ELSE [ok |-> TRUE, out |-> in]
apply_encrypt(in, alg, pw, salt) ==
    IF alg = XOR THEN xor_crypt(in, pw, salt)
    ELSE IF alg = RC4 THEN rc4_crypt(in, pw, salt)
    ELSE in
apply_decrypt(in, alg, pw, salt) == apply_encrypt(in, alg, pw, salt)

\* struct Options
Options(packAlg, compressAlg, encryptAlg, password) ==
    [packAlg |-> packAlg, compressAlg |-> compressAlg, encryptAlg |-> encryptAlg,
     password |-> password]

MAGIC == <<83, 69, 88, 80, 48, 49>>

\* an ofstream opened on path and written with buf: the name is followed,
\* the file is made or emptied; [ok, fs]
WriteStream(fs, path, buf) ==
    With(Resolve(fs, <<>>, path, MaxSymHops), LAMBDA r :
        IF r.err = "ok" /\ ~IsDir(fs, r.path) /\ fs[r.path].kind = "Regular"
        THEN Res(TRUE, [fs EXCEPT ![r.path].bytes = buf])
        ELSE IF r.err = "noent" /\ r.final
             THEN Res(TRUE, (r.path :> Node("Regular", buf, <<>>)) @@ fs)
        ELSE Res(FALSE, fs))

\* write_file_all: the parent directories, then the file
write_file_all(fs, path, buf) ==
    With(create_directories(fs, Parent(path)), LAMBDA dirs :
        IF ~dirs.ok THEN dirs ELSE WriteStream(dirs.fs, path, buf))

\* to_rel_generic: std::filesystem::relative works on the canonical forms
\* of both paths; [ok, text]
to_rel_generic(fs, base, path) ==
    With(<<weakly_canonical(fs, path, Len(path)), weakly_canonical(fs, base, Len(base))>>,
         LAMBDA c : IF c[1].ok /\ c[2].ok
                    THEN [ok |-> TRUE, text |-> PathText(lexically_relative(c[1].path, c[2].path))]
                    ELSE [ok |-> FALSE, text |-> <<>>])

\* the entries recursive_directory_iterator gives below dir: all of them,
\* none below a link
Below(fs, dir) ==
    {q \in DOMAIN fs : Len(q) > Len(dir) /\ SubSeq(q, 1, Len(dir)) = dir}

\* the loop of export_repo_to_package over the entries in the order walk:
\* [ok, entries]; is_regular_file follows links and throws on an error
\* status, the file that is the package is passed over
RECURSIVE Collect(_, _, _, _, _, _, _)
Collect(fs, repoDir, packageFile, opt, salt, walk, entries) ==
    IF walk = <<>> THEN [ok |-> TRUE, entries |-> entries]
    ELSE With(StatusKind(fs, Head(walk)), LAMBDA k :
        IF k = "none" THEN [ok |-> FALSE, entries |-> entries]
        ELSE IF k # "Regular"
             THEN Collect(fs, repoDir, packageFile, opt, salt, Tail(walk), entries)
        ELSE IF /\ StatusKind(fs, packageFile) \notin {"not_found", "none"}
                /\ Resolve(fs, <<>>, Head(walk), MaxSymHops).path
                       = Resolve(fs, <<>>, packageFile, MaxSymHops).path
             THEN Collect(fs, repoDir, packageFile, opt, salt, Tail(walk), entries)
        ELSE With(<<fs[Resolve(fs, <<>>, Head(walk), MaxSymHops).path].bytes,
                    to_rel_generic(fs, repoDir, Head(walk))>>, LAMBDA raw :
            IF ~raw[2].ok THEN [ok |-> FALSE, entries |-> entries]
            ELSE Collect(fs, repoDir, packageFile, opt, salt, Tail(walk),
                         Append(entries,
                                Entry(raw[2].text,
                                      apply_encrypt(apply_compress(raw[1], opt.compressAlg),
                                                    opt.encryptAlg, opt.password, salt),
                                      Len(raw[1]))))))

\* the file header
PackageHead(opt, salt) ==
    MAGIC \o write_u8(1) \o write_u8(opt.packAlg) \o write_u8(opt.compressAlg)
          \o write_u8(opt.encryptAlg) \o write_le(4, Len(salt)) \o salt

\* what a call gave: the file system it leaves and, when it threw, why
Thrown(why, fs) == [ok |-> FALSE, fs |-> fs, why |-> why, entries |-> <<>>]
Returned(fs, entries) == [ok |-> TRUE, fs |-> fs, why |-> "", entries |-> entries]

\* a check that asks for a password whatever the encryption is
PasswordMissingAlways(encryptAlg, password) == password = <<>>

\* the test both functions make before they write anything
PasswordMissing(encryptAlg, password) == encryptAlg # EncryptNone /\ password = <<>>

\* export_repo_to_package with the salt gen_salt draws and the order in
\* which the directory iterator gives the entries: [ok, fs, why, entries],
\* entries being the vector that was written
export_repo_to_package(fs, repoDir, packageFile, opt, salt, walk) ==
    IF StatusKind(fs, repoDir) \in {"not_found", "none"} THEN Thrown("repoDir", fs)
    ELSE IF PasswordMissing(opt.encryptAlg, opt.password) THEN Thrown("password", fs)
    ELSE With(Collect(fs, repoDir, packageFile, opt, salt, walk, <<>>), LAMBDA c :
        IF ~c.ok THEN Thrown("read", fs)
        ELSE With(WriteStream(fs, packageFile,
                              IF opt.packAlg = HeaderPerFile
                              THEN PackageHead(opt, salt) \o pack_header_write(c.entries)
                              ELSE pack_toc_write(PackageHead(opt, salt), c.entries)),
                  LAMBDA os : IF os.ok THEN Returned(os.fs, c.entries)
                              ELSE Thrown("create", fs)))

\* repoDir / std::filesystem::path(relPath): an absolute relPath replaces
\* repoDir
OutPath(dir, relPath) ==
    IF relPath # <<>> /\ relPath[1] = "/" THEN Tail(TextPath(relPath))
    ELSE dir \o TextPath(relPath)

\* the loops of import_package_to_repo over the entries read: what was
\* written stays when a later entry throws
RECURSIVE Unpack(_, _, _, _, _, _, _)
Unpack(fs, repoDir, compAlg, encAlg, password, salt, entries) ==
    IF entries = <<>> THEN Returned(fs, <<>>)
    ELSE With(apply_decompress(apply_decrypt(Head(entries).payload, encAlg, password, salt),
                               compAlg), LAMBDA raw :
        IF ~raw.ok THEN Thrown("RLE", fs)
        ELSE With(write_file_all(fs, OutPath(repoDir, Head(entries).relPath), raw.out),
                  LAMBDA done :
                      IF ~done.ok THEN Thrown("write", done.fs)
                      ELSE Unpack(done.fs, repoDir, compAlg, encAlg, password, salt,
                                  Tail(entries))))

\* the header fields of a package: [ok, packAlg, compAlg, encAlg, salt, pos]
ReadHead(is) ==
    With(read_le(is, 11, 4), LAMBDA saltLen :
        With(IF saltLen.ok THEN read_bytes(is, saltLen.pos, saltLen.val)
             ELSE Read(FALSE, <<>>, 0), LAMBDA salt :
            [ok |-> Len(is) >= 6 /\ SubSeq(is, 1, 6) = MAGIC /\ salt.ok,
             packAlg |-> read_u8(is, 8).val, compAlg |-> read_u8(is, 9).val,
             encAlg |-> read_u8(is, 10).val, salt |-> salt.val, pos |-> salt.pos]))

\* an import that writes the entries read before the body turned out bad
import_as_read(fs, packageFile, repoDir, password) ==
    IF StatusKind(fs, packageFile) # "Regular" THEN Thrown("open", fs)
    ELSE With(fs[Resolve(fs, <<>>, packageFile, MaxSymHops).path].bytes, LAMBDA is :
        With(ReadHead(is), LAMBDA head :
            IF ~head.ok THEN Thrown("header", fs)
            ELSE IF PasswordMissing(head.encAlg, password) THEN Thrown("password", fs)
            ELSE With(create_directories(fs, repoDir), LAMBDA dirs :
                IF ~dirs.ok THEN Thrown("write", dirs.fs)
                ELSE With(IF head.packAlg = HeaderPerFile
                          THEN pack_header_read(is, head.pos)
                          ELSE pack_toc_read(is), LAMBDA body :
                    With(Unpack(dirs.fs, repoDir, head.compAlg, head.encAlg, password,
                                head.salt, body.entries), LAMBDA done :
                        IF ~body.ok THEN Thrown("body", done.fs) ELSE done)))))

\* import_package_to_repo: [ok, fs, why]
import_package_to_repo(fs, packageFile, repoDir, password) ==
    IF StatusKind(fs, packageFile) # "Regular" THEN Thrown("open", fs)
    ELSE With(fs[Resolve(fs, <<>>, packageFile, MaxSymHops).path].bytes, LAMBDA is :
        With(ReadHead(is), LAMBDA head :
            IF ~head.ok THEN Thrown("header", fs)
            ELSE IF PasswordMissing(head.encAlg, password) THEN Thrown("password", fs)
            ELSE With(create_directories(fs, repoDir), LAMBDA dirs :
                IF ~dirs.ok THEN Thrown("write", dirs.fs)
                ELSE With(IF head.packAlg = HeaderPerFile
                          THEN pack_header_read(is, head.pos)
                          ELSE pack_toc_read(is), LAMBDA body :
                    IF ~body.ok THEN Thrown("body", dirs.fs)
                    ELSE Unpack(dirs.fs, repoDir, head.compAlg, head.encAlg, password,
                                head.salt, body.entries)))))

\* the repository directory, the package file and the directory of the
\* import
repoDir == <<"R">>
packageFile == <<"x">>
importDir == <<"T">>

\* repository directories: two entries, each nothing, a file, a link, or
\* a directory with a file
PkgBodies == {<<>>, <<97, 97, 97, 97, 97, 98>>, <<0, 255>>}
PkgLeaves(n) ==
    {Node("Regular", b, <<>>) : b \in PkgBodies}
        \cup {Node("Symlink", <<>>, t) : t \in {<<"a">>, <<"b">>, <<"x">>}}
PkgSubtrees(n) ==
    LeavesAt(<<"R", n>>, PkgLeaves(n))
        \cup {(<<"R", n>> :> DirNode) @@ c :
                 c \in LeavesAt(<<"R", n, "a">>, {Node("Regular", <<NameRank(n)>>, <<>>)})}
PkgTrees ==
    {(repoDir :> DirNode) @@ ta @@ tb : ta \in PkgSubtrees("a"), tb \in PkgSubtrees("b")}

PkgOptions ==
    {Options(p, c, e, pw) : p \in {HeaderPerFile, TocAtEnd}, c \in {CompressNone, RLE},
                            e \in {EncryptNone, XOR, RC4}, pw \in {<<>>, <<112, 119>>}}

\* what gen_salt can give: SaltLen bytes, any; two of them here
PkgSalts(opt) ==
    IF opt.encryptAlg = EncryptNone THEN {<<>>}
    ELSE {[k \in 1..SaltLen |-> 0], [k \in 1..SaltLen |-> (37 * k) % 256]}

\* the orders in which a directory iterator can give the entries of files
Walks(files) ==
    {w \in [1..Cardinality(files) -> files] : \A i, j \in DOMAIN w : w[i] = w[j] => i = j}

PkgIdle ==
    /\ p_pc = "idle" /\ p_opt = Options(HeaderPerFile, CompressNone, EncryptNone, <<>>)
    /\ p_entries = <<>> /\ p_err = "" /\ p_pw = <<>>

\* the passwords given to an import: none, that of the exports, another
ImportPasswords == {<<>>, <<112, 119>>, <<95>>}

InitPkg ==
    /\ build = "cpp_src"
    /\ disk \in PkgTrees
    /\ index_ = <<>>
    /\ p_pc = "start"
    /\ p_opt \in PkgOptions
    /\ p_entries = <<>> /\ p_err = "" /\ p_pw = <<>>

\* packages that export did not write: up to MaxCraft entries with relative,
\* nested, parent and absolute paths, payloads that are and are not RLE
\* streams, whole or damaged
MaxCraft == 2
CraftPaths == {<<"a">>, <<"a", "/", "b">>, <<".", ".", "/", "a">>, <<"/", "a">>}
CraftPayloads == {<<2, 7>>, <<7>>}
CraftEntries ==
    UNION {[1..n -> {Entry(t, b, 0) : t \in CraftPaths, b \in CraftPayloads}] :
              n \in 0..MaxCraft}
CraftOptions ==
    {Options(p, c, EncryptNone, <<>>) :
        p \in {HeaderPerFile, TocAtEnd}, c \in {CompressNone, RLE}}
Damages == {"none", "magic", "cut", "count", "toc"}

\* the bytes of a package with the entries, and what a damage makes of them:
\* a wrong first byte, the last byte missing, an entry count one too high,
\* a wrong first byte of the TOC magic
Crafted(opt, entries, damage) ==
    With(<<PackageHead(opt, <<>>),
           IF opt.packAlg = HeaderPerFile
           THEN PackageHead(opt, <<>>) \o pack_header_write(entries)
           ELSE pack_toc_write(PackageHead(opt, <<>>), entries)>>, LAMBDA w :
        With(IF opt.packAlg = HeaderPerFile THEN Len(w[1])
             ELSE Len(w[1]) + Len(TocBlobs(entries)), LAMBDA at :
            CASE damage = "magic" -> [w[2] EXCEPT ![1] = 0]
              [] damage = "cut" -> SubSeq(w[2], 1, Len(w[2]) - 1)
              [] damage = "count" ->
                   [w[2] EXCEPT ![at + (IF opt.packAlg = HeaderPerFile THEN 1 ELSE 5)] = @ + 1]
              [] damage = "toc" /\ opt.packAlg = TocAtEnd -> [w[2] EXCEPT ![at + 1] = 0]
              [] OTHER -> w[2]))

\* before the import of such a package: the working directory is empty or
\* holds a file a
InitCraft ==
    /\ build = "cpp_src"
    /\ disk \in {EmptyTree, <<"a">> :> RegNode}
    /\ index_ = <<>>
    /\ p_pc = "craft"
    /\ p_opt = Options(HeaderPerFile, CompressNone, EncryptNone, <<>>)
    /\ p_entries = <<>> /\ p_err = "" /\ p_pw = <<>>

\* somebody puts a package file in place
Craft ==
    /\ p_pc = "craft"
    /\ \E opt \in CraftOptions, entries \in CraftEntries, damage \in Damages :
           /\ disk' = (packageFile :> Node("Regular", Crafted(opt, entries, damage), <<>>))
                          @@ disk
           /\ p_opt' = opt
           /\ p_entries' = entries
    /\ p_pc' = "crafted"
    /\ UNCHANGED <<build, index_, p_err, p_pw>>
    /\ UNCHANGED notPkg

\* export <repo> <package> with the options
Export ==
    /\ p_pc = "start"
    /\ \E salt \in PkgSalts(p_opt), walk \in Walks(Below(disk, repoDir)) :
         \E r \in {export_repo_to_package(disk, repoDir, packageFile, p_opt, salt, walk)} :
             /\ disk' = r.fs
             /\ p_pc' = IF r.ok THEN "exported" ELSE "export_failed"
             /\ p_err' = r.why
             /\ p_entries' = r.entries
    /\ UNCHANGED <<build, index_, p_opt, p_pw>>
    /\ UNCHANGED notPkg

\* import <package> <repo> with a password
Import ==
    /\ p_pc \in {"exported", "crafted"}
    /\ \E password \in ImportPasswords :
       \E r \in {import_package_to_repo(disk, packageFile, importDir, password)} :
         /\ disk' = r.fs
         /\ p_pc' = IF p_pc = "exported"
                    THEN IF r.ok THEN "imported" ELSE "import_failed"
                    ELSE IF r.ok THEN "craft_imported" ELSE "craft_failed"
         /\ p_err' = r.why
         /\ p_pw' = password
    /\ UNCHANGED <<build, index_, p_opt, p_entries>>
    /\ UNCHANGED notPkg

NextPkg == Export \/ Craft \/ Import

----------------------------------------------------------------------------
(* Specifications *)

vars == <<metaVars, rleVars, cipherVars, filterVars, walkVars, repoVars, apiVars, driverVars, pkgVars, pathVars>>

\* Metadata::serialize then Metadata::deserialize, for every valid record
StartMeta ==
    /\ InitMeta /\ RleIdle /\ CipherIdle /\ FilterIdle /\ WalkIdle
    /\ RepoIdle /\ ApiIdle /\ DriverIdle /\ PkgIdle /\ PathIdle
SpecMeta == StartMeta /\ [][NextMeta]_vars

\* rle_compress then rle_decompress
StartRle ==
    /\ InitRle /\ MetaIdle /\ CipherIdle /\ FilterIdle /\ WalkIdle
    /\ RepoIdle /\ ApiIdle /\ DriverIdle /\ PkgIdle /\ PathIdle
SpecRle == StartRle /\ [][NextRle]_vars

\* xor_crypt or rc4_crypt, applied twice
StartCipher ==
    /\ InitCipher /\ MetaIdle /\ RleIdle /\ FilterIdle /\ WalkIdle
    /\ RepoIdle /\ ApiIdle /\ DriverIdle /\ PkgIdle /\ PathIdle
SpecCipher == StartCipher /\ [][NextCipher]_vars

\* a FilterChain built by addFilter and queried by shouldInclude
StartFilter ==
    /\ InitFilter /\ MetaIdle /\ RleIdle /\ CipherIdle /\ WalkIdle
    /\ RepoIdle /\ ApiIdle /\ DriverIdle /\ PkgIdle /\ PathIdle
SpecFilter == StartFilter /\ [][NextFilter]_vars

\* the directory walk, one loop turn per step; the loop runs in one thread
\* and is never suspended, so a turn that can be taken is taken
StartWalk ==
    /\ InitWalk /\ MetaIdle /\ RleIdle /\ CipherIdle /\ FilterIdle
    /\ RepoIdle /\ ApiIdle /\ DriverIdle /\ PkgIdle /\ PathIdle
SpecWalk == StartWalk /\ [][NextWalk]_vars /\ WF_vars(WalkStep)

\* store, save and load calls on one Repository, in any order
StartApi ==
    /\ InitApi /\ MetaIdle /\ RleIdle /\ CipherIdle /\ FilterIdle
    /\ WalkIdle /\ DriverIdle /\ PkgIdle /\ PathIdle
SpecRepo == StartApi /\ [][NextApi]_vars

\* a backup run into a new repository, then a restore run in a new process,
\* by the command line drivers or by the operations of the GUI
StartDriver ==
    /\ (InitDriver \/ InitGui) /\ MetaIdle /\ RleIdle /\ CipherIdle /\ FilterIdle
    /\ WalkIdle /\ ApiIdle /\ PkgIdle /\ PathIdle
SpecDriver == StartDriver /\ [][NextDriver]_vars

\* PathFilter::matchesPattern for every short pattern and path, and
\* PathFilter::shouldInclude for short lists of patterns
StartPath ==
    /\ (InitPath \/ InitRules) /\ MetaIdle /\ RleIdle /\ CipherIdle /\ FilterIdle
    /\ WalkIdle /\ RepoIdle /\ ApiIdle /\ DriverIdle /\ PkgIdle
SpecPath == StartPath /\ [][NextPath]_vars

\* an export of a repository directory, then an import of the package
StartPkg ==
    /\ (InitPkg \/ InitCraft) /\ MetaIdle /\ RleIdle /\ CipherIdle /\ FilterIdle
    /\ WalkIdle /\ ApiIdle /\ DriverIdle /\ PathIdle
SpecPkg == StartPkg /\ [][NextPkg]_vars

----------------------------------------------------------------------------
(* Properties *)

\* C1: after a backup of a source tree of regular files, symlinks and
\* directories without a filter, and a restore into the empty target, the
\* files and links of the target are those of the source, at the same
\* relative paths, with the same bytes and the same link targets.
BackupRestoreRoundTrip ==
    (/\ d_pc = "restored" /\ d_filter.null
     /\ \A p \in DOMAIN disk :
            p[1] = "S" => disk[p].kind \in {"Regular", "Symlink", "Directory"})
    => \A p \in DOMAIN disk :
         /\ (Len(p) > 1 /\ p[1] = "S" /\ disk[p].kind # "Directory")
              => /\ TargetRoot \o Tail(p) \in DOMAIN disk
                 /\ disk[TargetRoot \o Tail(p)].kind = disk[p].kind
                 /\ disk[TargetRoot \o Tail(p)].bytes = disk[p].bytes
                 /\ disk[TargetRoot \o Tail(p)].target = disk[p].target
         /\ (Len(p) > 1 /\ p[1] = "T" /\ disk[p].kind # "Directory")
              => SrcRoot \o Tail(p) \in DOMAIN disk

\* C2: a load_index that follows a save_index leaves the index in memory as
\* it was, file_type of every entry included.
IndexRoundTrip ==
    [][(a_pc = "saved" /\ a_call'.op = "load") => (a_ret' /\ index_' = index_)]_vars

\* C4: after an export of a repository directory and an import of the
\* package with the same password, the directory of the import has a file
\* at every relative path where the repository has one, with the same
\* bytes, and no other file.
PackageRoundTrip ==
    (p_pc = "imported" /\ p_pw = p_opt.password) =>
        \A p \in DOMAIN disk :
            /\ (Len(p) > 1 /\ p[1] = "R" /\ disk[p].kind # "Directory")
                 => /\ importDir \o Tail(p) \in DOMAIN disk
                    /\ disk[p].kind = "Regular"
                          => disk[importDir \o Tail(p)].bytes = disk[p].bytes
            /\ (Len(p) > 1 /\ p[1] = "T" /\ disk[p].kind # "Directory")
                 => repoDir \o Tail(p) \in DOMAIN disk

\* C3: parsing the text serialize gives for a valid record succeeds and
\* yields a record equal to it in every field.
MetaRoundTrip == m_pc = "parsed" => (m_out.ok /\ m_out.md = m_in)

\* C5: decompressing what rle_compress gives for a byte string succeeds and
\* yields that byte string, the empty one and runs above 255 bytes included.
RleRoundTrip == r_pc = "decompressed" => (r_out.ok /\ r_out.out = r_in)

\* two runs, the first longer than two full pairs, have gone through both
RleRoundTripSeen ==
    /\ r_pc = "decompressed"
    /\ Len(r_in) > 2 * MaxRun + 3
    /\ r_in[1] # r_in[Len(r_in)]
    /\ Len(r_mid) = 8

\* C6: for both ciphers, applying crypt twice with the same password and
\* salt gives the input back, and each application keeps the length.
CipherInvolution ==
    /\ c_pc \in {"encrypted", "decrypted"} => Len(c_mid) = Len(c_in)
    /\ c_pc = "decrypted" => (c_out = c_in /\ Len(c_out) = Len(c_mid))

\* RC4 with a password and a salt has changed a full-length input and
\* brought it back
CipherInvolutionSeen ==
    /\ c_pc = "decrypted" /\ c_alg = "RC4"
    /\ Len(c_in) = MaxLen /\ c_pw # <<>> /\ c_salt # <<>>
    /\ c_mid # c_in /\ c_out = c_in

\* C7: shouldInclude of a chain is the conjunction of the decisions of the
\* filters added to it; the empty chain includes every path.
FilterConjunction ==
    f_pc = "decided" =>
        f_result = (\A i \in 1..Len(f_added) :
                        f_added[i].null \/ FilterAccepts(f_added[i], f_path))

\* a chain whose first filter includes the path and whose second rejects it
\* has decided
FilterConjunctionSeen ==
    /\ f_pc = "decided" /\ Len(filters_) >= 2
    /\ FilterAccepts(filters_[1], f_path) /\ ~FilterAccepts(filters_[2], f_path)
    /\ f_result = FALSE

\* C8: the walk of getFilesRecursive ends on every tree, those with links
\* to ancestors and with directories linked to each other included.
WalkTerminates == <>WalkDone

\* the walk is over in a tree whose two directories hold links to each other
WalkTerminatesSeen ==
    /\ WalkDone
    /\ <<"a", "a">> \in DOMAIN w_tree /\ w_tree[<<"a", "a">>].target = <<"..", "b">>
    /\ <<"b", "a">> \in DOMAIN w_tree /\ w_tree[<<"b", "a">>].target = <<"..", "a">>
    /\ ~w_threw

SymlinkStoreRecordsOnly ==
    [][(a_n' = a_n + 1 /\ a_call'.metadata.file_type = "Symlink")
       => /\ a_ret'
          /\ a_call'.relative_path \in DOMAIN index_'
          /\ index_'[a_call'.relative_path] = a_call'.metadata
          /\ \A p \in DOMAIN disk \cup DOMAIN disk' :
                (/\ Len(p) >= Len(getStoragePath(a_call'.relative_path))
                 /\ SubSeq(p, 1, Len(getStoragePath(a_call'.relative_path)))
                        = getStoragePath(a_call'.relative_path))
                => (p \in DOMAIN disk /\ p \in DOMAIN disk' /\ disk'[p] = disk[p])]_vars


\* C11: a store call of a Regular entry that returns false has nevertheless
\* recorded relative_path with the given metadata in the in-memory index
StoreRecordsFirst ==
    [][(/\ a_n' = a_n + 1
        /\ a_call'.metadata.file_type = "Regular"
        /\ ~a_call'.metadata.is_symlink
        /\ ~a_ret')
           => /\ a_call'.relative_path \in DOMAIN index_'
              /\ index_'[a_call'.relative_path] = a_call'.metadata]_vars

\* C12: a loadIndex call on a repository without index.txt returns success
\* and leaves the in-memory index empty, whatever it held before
LoadMissingIsEmpty ==
    [][(a_call'.op = "load" /\ StatusKind(disk, index_file_) = "not_found")
           => (a_ret' /\ index_' = <<>>)]_vars

\* the paths on the lines of index.txt after a saveIndex that succeeded
Saved == a_pc = "saved" /\ a_ret
SavedPaths == IndexLinePaths(disk[index_file_].bytes, 1)

IndexOnDisk(fs) == {fs[p] : p \in {index_file_} \cap DOMAIN fs}
GuiLoops == {"gui_backup", "gui_restore"}
GuiCancelled == {"gui_cancelled", "gui_restore_cancelled"}

\* C14: a loop turn of a GUI operation in which shouldCancel answers true
\* handles no file (disk, index and counters stay), reports onComplete with the
\* counters so far and success false, and returns false; nothing runs after
\* it; and up to there index.txt is what it was when the operation started,
\* since only the end of a backup that was not cancelled writes it
CancelStops ==
    [][/\ (d_pc \in GuiLoops /\ d_cancel')
            => /\ d_pc' \in GuiCancelled
               /\ UNCHANGED <<disk, index_, d_i, d_log>>
               /\ UNCHANGED <<success_count, failed_count, skipped_count>>
               /\ d_complete' = Complete(success_count, failed_count, skipped_count, FALSE)
               /\ ~d_ret'
       /\ d_pc \in GuiCancelled => UNCHANGED vars
       /\ (d_pc \in GuiLoops \cup {"gui_start"} /\ d_pc' \in GuiLoops \cup GuiCancelled)
            => IndexOnDisk(disk') = IndexOnDisk(disk)]_vars

CancelStopsSeen ==
    /\ d_pc = "gui_cancelled"
    /\ d_cancel
    /\ success_count > 0
    /\ d_i <= Len(d_files)
    /\ IndexOnDisk(disk) = {}

\* C15: a backup that was not cancelled ends after a turn for every collected
\* file, and returns false exactly when its saveIndex call fails
BackupFailsOnlyOnSave ==
    [][(/\ d_pc \in {"backup", "gui_backup"}
        /\ d_pc' \in {"backed_up", "gui_backed_up", "gui_save_failed"})
           => /\ Len(d_log) = Len(d_files)
              /\ d_ret' = saveIndex(disk, index_).ok]_vars

\* the counters of the restore run that is under way or has ended
Restored == IF d_pc \in {"restore", "restored", "restore_failed"}
            THEN restore_count_ ELSE success_count
Failed == IF d_pc \in {"restore", "restored", "restore_failed"}
          THEN failed_count_ ELSE failed_count

\* C16: a restore run whose loadIndex fails returns false with nothing
\* restored; otherwise it takes the keys of the index once each, has made one
\* restore call per key passed, counted as restored or as failed, and at the
\* end restored + failed is the number of keys and the run returns true
\* exactly when failed is zero
RestoreCounts ==
    /\ d_pc \in {"restore_failed", "gui_restore_failed"}
         => /\ ~d_ret
            /\ Restored = 0 /\ Failed = 0
            /\ \A p \in DOMAIN disk : p[1] = "T" => p = TargetRoot
    /\ d_pc \in {"restore", "gui_restore", "restored", "gui_restored"}
         => /\ Len(d_files) = Cardinality(DOMAIN index_)
            /\ {d_files[i] : i \in 1..Len(d_files)} = DOMAIN index_
            /\ Restored + Failed = d_i - 1
    /\ d_pc \in {"restored", "gui_restored"}
         => /\ Restored + Failed = Cardinality(DOMAIN index_)
            /\ d_ret = (Failed = 0)

\* a restore run went on after a key that failed
RestoreCountsSeen ==
    /\ d_pc \in {"restored", "gui_restored"}
    /\ Failed > 0 /\ Restored > 0
    /\ ~d_ret

\* the n TOC items that start at position pos of the package bytes f
RECURSIVE TocParse(_, _, _)
TocParse(f, pos, n) ==
    IF n = 0 THEN <<>>
    ELSE With(read_string(f, pos), LAMBDA path :
         With(read_le(f, path.pos, 8), LAMBDA orig :
         With(read_le(f, orig.pos, 8), LAMBDA offset :
         With(read_le(f, offset.pos, 8), LAMBDA stored :
             <<[relPath |-> path.val, originalSize |-> orig.val, offset |-> offset.val,
                storedSize |-> stored.val, next |-> stored.pos]>>
                 \o TocParse(f, stored.pos, n - 1)))))

\* C17: in a package written with the TocAtEnd layout the last 8 bytes are
\* the offset of the TOC1 magic, the TOC has one item per exported entry in
\* the order of the entries, the bytes at each item's offset are the entry's
\* payload, the first payload starts after the 14 header bytes and the salt,
\* each next one where the one before ends, and the last ends at the TOC
TocLayout ==
    (p_pc = "exported" /\ p_opt.packAlg = TocAtEnd) =>
        LET f == disk[packageFile].bytes
            n == Len(p_entries)
            tocOffset == read_le(f, Len(f) - 7, 8).val
            items == TocParse(f, tocOffset + 9, n)
            bodyStart == 14 + read_le(f, 11, 4).val
        IN  /\ Len(f) >= 8 /\ tocOffset + 16 <= Len(f)
            /\ SubSeq(f, tocOffset + 1, tocOffset + 4) = TOC_MAGIC
            /\ read_le(f, tocOffset + 5, 4).val = n
            /\ \A i \in 1..n :
                 /\ items[i].relPath = p_entries[i].relPath
                 /\ items[i].originalSize = p_entries[i].originalSize
                 /\ items[i].storedSize = Len(p_entries[i].payload)
                 /\ SubSeq(f, items[i].offset + 1, items[i].offset + items[i].storedSize)
                        = p_entries[i].payload
                 /\ items[i].offset = IF i = 1 THEN bodyStart
                                      ELSE items[i - 1].offset + items[i - 1].storedSize
            /\ tocOffset = IF n = 0 THEN bodyStart
                           ELSE items[n].offset + items[n].storedSize
            /\ Len(f) = (IF n = 0 THEN tocOffset + 9 ELSE items[n].next) + 7

\* a TocAtEnd package of two entries with payloads, after a salt
TocLayoutSeen ==
    /\ p_pc = "exported" /\ p_opt.packAlg = TocAtEnd
    /\ Len(p_entries) = 2
    /\ p_entries[1].payload # <<>> /\ p_entries[2].payload # <<>>
    /\ read_le(disk[packageFile].bytes, 11, 4).val = SaltLen

\* C18: an export throws for the password exactly when encryption is on and
\* the password is empty, and then the disk is as before; the exported file
\* has a salt of no bytes without encryption and of 16 bytes with it; an
\* import of an exported package throws for the password exactly when the
\* encryption tag is not None and the password is empty, and then the disk
\* is as before
PasswordRule ==
    [][/\ (p_pc = "start" /\ p_pc' # "start")
            => /\ (p_err' = "password")
                     = (p_opt.encryptAlg # EncryptNone /\ p_opt.password = <<>>)
               /\ p_err' = "password" => (p_pc' = "export_failed" /\ disk' = disk)
               /\ p_pc' = "exported"
                     => /\ read_le(disk'[packageFile].bytes, 11, 4).val
                              = (IF p_opt.encryptAlg = EncryptNone THEN 0 ELSE 16)
                        /\ Len(disk'[packageFile].bytes)
                              >= 14 + read_le(disk'[packageFile].bytes, 11, 4).val
       /\ (p_pc = "exported" /\ p_pc' # "exported")
            => /\ (p_err' = "password")
                     = (read_u8(disk[packageFile].bytes, 10).val # EncryptNone /\ p_pw' = <<>>)
               /\ p_err' = "password" => (p_pc' = "import_failed" /\ disk' = disk)]_vars

\* an encrypted package was imported without a password: nothing was made
PasswordRuleSeen ==
    /\ p_pc = "import_failed" /\ p_err = "password"
    /\ p_pw = <<>> /\ p_opt.password # <<>> /\ p_opt.encryptAlg = RC4
    /\ importDir \notin DOMAIN disk

\* an import with a password that is neither empty nor that of the export
\* has ended, the package being encrypted with RC4
WrongPassword ==
    /\ p_pc \in {"imported", "import_failed"}
    /\ p_opt.encryptAlg = RC4
    /\ p_pw # <<>> /\ p_pw # p_opt.password

\* C19 as stated: with RLE the import throws for a corrupt stream, without
\* compression it succeeds
WrongPasswordDetected ==
    WrongPassword => IF p_opt.compressAlg = RLE
                     THEN p_pc = "import_failed" /\ p_err = "RLE"
                     ELSE p_pc = "imported"

\* a byte string rle_decompress takes: pairs, no count of zero
ValidRle(s) == Len(s) % 2 = 0 /\ \A k \in 1..Len(s) : k % 2 = 1 => s[k] # 0

\* what the payloads of the package decrypt to under the password of the
\* import
WrongPlain ==
    LET f == disk[packageFile].bytes
        salt == read_bytes(f, 15, read_le(f, 11, 4).val).val
    IN  [i \in 1..Len(p_entries) |-> rc4_crypt(p_entries[i].payload, p_pw, salt)]

\* C19: with RLE the import throws for a corrupt stream exactly when a
\* payload decrypts to an odd number of bytes or to a pair with count zero;
\* otherwise, and always without compression, it succeeds
WrongPasswordOutcome ==
    WrongPassword =>
        IF p_opt.compressAlg = RLE /\ \E i \in 1..Len(p_entries) : ~ValidRle(WrongPlain[i])
        THEN p_pc = "import_failed" /\ p_err = "RLE"
        ELSE p_pc = "imported"

\* a compressed package was imported under a wrong password without an
\* error, and a file of the import differs from the exported one
WrongPasswordOutcomeSeen ==
    /\ WrongPassword /\ p_opt.compressAlg = RLE /\ p_pc = "imported"
    /\ \E p \in DOMAIN disk :
          /\ Len(p) > 1 /\ p[1] = "T" /\ disk[p].kind = "Regular"
          /\ repoDir \o Tail(p) \in DOMAIN disk
          /\ disk[repoDir \o Tail(p)].kind = "Regular"
          /\ disk[p].bytes # disk[repoDir \o Tail(p)].bytes

\* the pattern without its last character is how the path begins
StartsWithDir(s, p) ==
    Len(s) >= Len(p) - 1 /\ \A k \in 1..Len(p) - 1 : s[k] = p[k]
\* the pattern occurs somewhere in the path
Occurs(s, p) ==
    \E i \in 0..Len(s) - Len(p) : \A k \in 1..Len(p) : s[i + k] = p[k]
EndsWithSlash(p) == p # <<>> /\ p[Len(p)] = "/"

\* C20 as stated: a pattern matches a path exactly when they are equal, or
\* the pattern occurs in the path, or the pattern ends with a slash and the
\* path starts with the pattern without it
MatchAsStated ==
    pf_pc = "done" =>
        pf_result = (\/ pf_path = pf_pattern
                     \/ Occurs(pf_path, pf_pattern)
                     \/ EndsWithSlash(pf_pattern) /\ StartsWithDir(pf_path, pf_pattern))

\* C20: a pattern that ends with a slash matches a path exactly when the
\* path starts with the pattern without the slash, wherever else the
\* pattern occurs; any other pattern matches exactly when it occurs in the
\* path, which the equal path and the empty pattern are cases of
MatchByKind ==
    pf_pc = "done" =>
        pf_result = IF EndsWithSlash(pf_pattern) THEN StartsWithDir(pf_path, pf_pattern)
                    ELSE Occurs(pf_path, pf_pattern)

\* a directory pattern that occurs in the path, not at its start, did not
\* match
MatchByKindSeen ==
    /\ pf_pc = "done" /\ ~pf_result
    /\ pf_pattern = <<"b", "/">> /\ pf_path = <<"a", "b", "/">>

\* C21: every Metadata in the in-memory index, stored by a backup or read
\* back by loadIndex, is a link exactly when its type is Symlink and has a
\* link target exactly when it is a link
IndexMetadataValid ==
    \A p \in DOMAIN index_ :
        /\ index_[p].is_symlink = (index_[p].file_type = "Symlink")
        /\ (index_[p].symlink_target # <<>>) = index_[p].is_symlink

\* some pattern of the list matches the path, by the rule of each kind
SomeMatches(s, list) ==
    \E i \in 1..Len(list) :
        IF EndsWithSlash(list[i]) THEN StartsWithDir(s, list[i]) ELSE Occurs(s, list[i])

\* C22: a path is rejected when an exclude pattern matches it, whatever the
\* includes; otherwise, with includes, it is accepted exactly when one of
\* them matches; otherwise it is accepted
PathDecision ==
    pf_pc = "decided" =>
        pf_result = IF SomeMatches(pf_path, exclude_patterns_) THEN FALSE
                    ELSE IF include_patterns_ # <<>>
                         THEN SomeMatches(pf_path, include_patterns_)
                    ELSE TRUE

\* a path that an include and an exclude both match was rejected
PathDecisionSeen ==
    /\ pf_pc = "decided" /\ ~pf_result
    /\ pf_path = <<"a", "b">>
    /\ include_patterns_ = <<<<"a", "/">>>> /\ exclude_patterns_ = <<<<"b">>>>

\* C23: a restoreFile call for a relative path that is not in the index
\* returns false and leaves the file system as it was: no parent directory
\* made, nothing at the target removed or written
RestoreNotIndexed ==
    [][(a_call'.op = "restore" /\ a_call'.relative_path \notin DOMAIN index_)
          => (~a_ret' /\ disk' = disk)]_vars

\* a restore of a path that is not indexed although its body is stored,
\* to a target whose parent does not exist, failed and made no parent
RestoreNotIndexedSeen ==
    /\ a_pc = "restored" /\ ~a_ret
    /\ a_call.relative_path \notin DOMAIN index_
    /\ getStoragePath(a_call.relative_path) \in DOMAIN disk
    /\ a_call.target_path = <<"T", "a">>
    /\ TargetRoot \notin DOMAIN disk

\* the restore call about to be made fails for the reason of C28: an
\* indexed Regular entry without a body in R/data, or a Symlink entry with
\* an empty target
FailsForLack(call) ==
    /\ call.op = "restore" /\ call.relative_path \in DOMAIN index_
    /\ \/ /\ index_[call.relative_path].file_type = "Regular"
          /\ StatusKind(disk, getStoragePath(call.relative_path)) = "not_found"
       \/ /\ index_[call.relative_path].file_type = "Symlink"
          /\ index_[call.relative_path].symlink_target = <<>>

NonDirectories(tree) == {p \in DOMAIN tree : p # <<>> /\ tree[p].kind # "Directory"}

\* C24: a walk that returns has collected exactly the entries below the root
\* that are not themselves directories, a link to a directory among them,
\* each once
WalkCollectsNonDirectories ==
    (WalkDone /\ ~w_threw) =>
        /\ {w_files[i] : i \in 1..Len(w_files)} = NonDirectories(w_tree)
        /\ Len(w_files) = Cardinality(NonDirectories(w_tree))

\* the sum of the counts of a sequence of (count, byte) pairs
RECURSIVE SumCounts(_)
SumCounts(pairs) == IF Len(pairs) < 2 THEN 0 ELSE pairs[1] + SumCounts(Tail(Tail(pairs)))

\* the input holds more than MaxRun equal bytes in a row from position i
LongRunAt(in, i) == i + MaxRun <= Len(in) /\ \A k \in i..(i + MaxRun) : in[k] = in[i]

\* C25: what rle_compress gives has an even length, every count in it is in
\* 1..255, the counts sum to the length of the input, and an input with a
\* run of more than 255 equal bytes gives consecutive pairs of one byte
RleShape ==
    r_pc \in {"compressed", "decompressed"} =>
        /\ Len(r_mid) % 2 = 0
        /\ \A k \in 1..(Len(r_mid) \div 2) : r_mid[2 * k - 1] \in 1..MaxRun
        /\ SumCounts(r_mid) = Len(r_in)
        /\ (\E i \in 1..Len(r_in) : LongRunAt(r_in, i)) =>
               \E k \in 1..(Len(r_mid) \div 2 - 1) : r_mid[2 * k] = r_mid[2 * k + 2]

\* a run of 513 bytes followed by a run of 256 others has been encoded, in
\* five pairs
RleShapeSeen ==
    /\ r_pc = "compressed"
    /\ LongRunAt(r_in, 1) /\ Len(r_in) = 3 * MaxRun + 4
    /\ r_in[1] # r_in[Len(r_in)]
    /\ Len(r_mid) = 10

\* how many files of the backup loop had the given outcome
Outcomes(x) == Cardinality({i \in 1..Len(d_log) : d_log[i] = x})

\* C26: at the end of a backup that was not cancelled every collected file
\* is counted once; the skipped counter holds the files the filter rejected
\* and those of an unsupported type, the success counter the stored ones,
\* and the failures are counted as failures
BackupCounters ==
    /\ d_pc = "backed_up" =>
           /\ backup_count_ = Outcomes("stored")
           /\ skipped_count_ = Outcomes("filtered") + Outcomes("unsupported")
           /\ Len(d_log) = Len(d_files)
    /\ d_pc \in {"gui_backed_up", "gui_save_failed"} =>
           /\ success_count = Outcomes("stored")
           /\ skipped_count = Outcomes("filtered") + Outcomes("unsupported")
           /\ failed_count = Outcomes("failed")
           /\ success_count + failed_count + skipped_count = Len(d_files)

\* the positions of the calls with the given name in a log of calls
Calls(ev, name) == {k \in 1..Len(ev) : ev[k][1] = name}
ResultNames == {"onFileSuccess", "onFileError", "onFileSkipped"}

\* a GUI run has ended, by a return or by an exception
GuiEnded ==
    \/ d_pc \in {"gui_failed", "gui_cancelled", "gui_backed_up", "gui_save_failed",
                 "gui_restore_failed", "gui_restore_cancelled", "gui_restored"}
    \/ d_pc = "crashed" /\ d_events # <<>>

\* C27: in a GUI run onStart is called at most once and before every call
\* about a file of the list; the k-th onProgress carries index k and is
\* followed, before the next onProgress, by exactly one result call for
\* that file; and a run in which onStart was called ends with its only
\* onComplete
ProgressProtocol ==
    /\ Cardinality(Calls(d_events, "onStart")) <= 1
    /\ \A k \in 1..Len(d_events) :
           d_events[k][1] # "onStart" /\ d_events[k][2] > 0 =>
               \E s \in Calls(d_events, "onStart") : s < k
    /\ \A k \in Calls(d_events, "onProgress") :
           d_events[k][2] = Cardinality({j \in Calls(d_events, "onProgress") : j <= k})
    /\ GuiEnded =>
           /\ \A k \in Calls(d_events, "onProgress") :
                  LET later == {j \in Calls(d_events, "onProgress") : j > k}
                      stop == IF later = {} THEN Len(d_events) + 1
                              ELSE CHOOSE j \in later : \A m \in later : j <= m
                  IN  Cardinality({j \in (k + 1)..(stop - 1) :
                                      /\ d_events[j][1] \in ResultNames
                                      /\ d_events[j][2] = d_events[k][2]}) = 1
           /\ Calls(d_events, "onStart") # {} =>
                  Calls(d_events, "onComplete") = {Len(d_events)}

\* the paths at which a step made, replaced or changed something
Touched(before, after) ==
    {p \in DOMAIN after : p \notin DOMAIN before \/ after[p] # before[p]}

\* C29: an import that returns has made or changed nothing but the import
\* directory and entries below it, whatever the package
ImportContained ==
    [][(p_pc \in {"exported", "crafted"} /\ p_pc' \in {"imported", "craft_imported"})
          => \A p \in Touched(disk, disk') : SubSeq(p, 1, Len(importDir)) = importDir]_vars

\* an import step that threw
ImportThrew == p_pc \in {"exported", "crafted"} /\ p_pc' \in {"import_failed", "craft_failed"}

\* an import that threw on the header or while the body was read has made
\* at most the import directory
ParsedFirst ==
    (ImportThrew /\ p_err' \in {"header", "body"}) => Touched(disk, disk') \subseteq {importDir}

\* the files, not directories, a step wrote
Wrote(before, after) == {p \in Touched(before, after) : after[p].kind # "Directory"}

\* C30 as stated: an import that fails on the header or the body has written
\* no entry, and files are left by a failed import only when the
\* decompression of a later entry failed
ParsedBeforeWrittenRle ==
    [][/\ ParsedFirst
       /\ (ImportThrew /\ Wrote(disk, disk') # {}) => p_err' = "RLE"]_vars

\* C30: an import that fails on the header or the body has written no
\* entry, and files are left by a failed import only when the decompression
\* or the writing of a later entry failed
ParsedBeforeWritten ==
    [][/\ ParsedFirst
       /\ (ImportThrew /\ Wrote(disk, disk') # {}) => p_err' \in {"RLE", "write"}]_vars

\* the import of a package of two entries whose entry count is one too high
\* failed on the body: the import directory was made and is empty
ParsedBeforeWrittenSeen ==
    /\ p_pc = "craft_failed" /\ p_err = "body"
    /\ Len(p_entries) = 2
    /\ importDir \in DOMAIN disk
    /\ \A p \in DOMAIN disk : p \in {importDir, packageFile}

====
